---- MODULE Spec2Model ----
(***************************************************************************)
(* Model of the Kyverno policy-as-a-service backend:                       *)
(*   - the relational store (clusters, service_account_tokens, policies,   *)
(*     policy_deployments, audit_logs) and the request handlers of         *)
(*     routers/clusters.py and routers/policies.py that write to it;       *)
(*   - the two in-memory session pools of services/k8s_connector.py and    *)
(*     services/ssh_connector.py;                                          *)
(*   - the policy validation engine of services/validation_service.py.     *)
(* Every request handler is an `async def` without an await, so one        *)
(* handler runs from its first line to its response without interleaving;  *)
(* it is one action here.                                                  *)
(***************************************************************************)
EXTENDS Integers, Sequences, FiniteSets, TLC

\* ---------------------------------------------------------------- bounds
MaxClusters == 2
MaxTokens == 2
MaxPolicies == 2
MaxDeployments == 2
MaxRequests == 3
MaxSessions == 2
MaxTime == 62
MaxRules == 2
MaxReportPolicies == 2
MaxViolations == 2
MaxRuns == 3
MaxColumns == 3
MaxLoads == 5

\* ------------------------------------------------------ program constants
K8S_SESSION_TIMEOUT_MINUTES == 60
SESSION_TIMEOUT_MINUTES == 30

\* NULL column value / absent optional request field (ids start at 1)
Null == 0

ClusterNames == {"prod", "dev"}
PolicyNames == {"require-labels", "disallow-latest"}
\* yaml_template texts of the requests
Templates == {"tplA", "tplB", "tplInvalid"}
\* minutes by which the clock advances between two calls
TickDeltas == {30, 31}

VARIABLES
    clusters,       \* table clusters: set of rows
    tokens,         \* table service_account_tokens
    policies,       \* table policies
    deployments,    \* table policy_deployments
    audit_logs,     \* table audit_logs, in insertion (id) order
    last,           \* response of the last HTTP request
    nreq,           \* number of HTTP requests served so far
    k8s_sessions,   \* _k8s_sessions: session id -> (connector, timestamp)
    ssh_sessions,   \* _ssh_sessions: session id -> (connector, timestamp)
    k8s_client,     \* per K8sConnector: _api_client is not None
    ssh_client,     \* per SSHConnector: _client is not None
    ssh_born,       \* per SSH session: clock value when it was created
    now,            \* datetime.now(), in minutes
    ret,            \* return value / exception of the last pool function call
    validated,      \* last validate_policy call: the document and the result
    report,         \* last generate_compliance_report call: arguments and result
    migration,      \* the SQLite file seen by add_cluster_id_to_policies.py, and
                    \* the outcome of its last run
    tasks,          \* POST /policies/deploy requests in flight: where each is
    running,        \* the request the event loop is executing, if any
    connector_instance, \* _connector_instance: the cluster whose credentials
                    \* the legacy connector has loaded
    connector,      \* one K8sConnector: _api_client is set, _current_kubeconfig,
                    \* _temp_kubeconfig
    tmpdir          \* the temporary directory: how many names mkstemp has
                    \* handed out, and the files that exist

dbvars == <<clusters, tokens, policies, deployments, audit_logs>>
k8svars == <<k8s_sessions, k8s_client>>
sshvars == <<ssh_sessions, ssh_client, ssh_born>>
vars == <<clusters, tokens, policies, deployments, audit_logs, last, nreq,
          k8s_sessions, ssh_sessions, k8s_client, ssh_client, ssh_born, now, ret,
          validated, report, migration, tasks, running, connector_instance,
          connector, tmpdir>>
loopvars == <<tasks, running, connector_instance>>
\* the state that the request handlers run as one step leave alone
auxvars == <<report, migration, loopvars, connector, tmpdir>>

\* ===================================================================
\*  Session pools
\* ===================================================================

\* the expiry test written with >= instead of >
SessionExpired_AtTimeout(ts, t, timeout) == t - ts >= timeout

\* datetime.now() - created_at > timedelta(minutes=timeout)
SessionExpired(ts, t, timeout) == t - ts > timeout

\* uuid4(): a session id never handed out before; one connector per session
FreshId(client) == Cardinality(DOMAIN client) + 1

\* sessions created so far in both pools (the model stops creating at MaxSessions)
SessionsCreated == Cardinality(DOMAIN k8s_client) + Cardinality(DOMAIN ssh_client)

Ret(fn, sid, outcome, conn, n) ==
    [fn |-> fn, sid |-> sid, outcome |-> outcome, conn |-> conn, n |-> n]

\* pool without the entry of sid
Without(pool, sid) == [s \in DOMAIN pool \ {sid} |-> pool[s]]
\* pool with the entry of sid set to (conn, t)
WithEntry(pool, sid, conn, t) ==
    [s \in DOMAIN pool \cup {sid} |->
        IF s = sid THEN [conn |-> conn, ts |-> t] ELSE pool[s]]

\* a sweep that stops after the first expired entry it meets
ExpiredIds_FirstOnly(pool, t, timeout) ==
    LET all == {s \in DOMAIN pool : t - pool[s].ts > timeout}
    IN  IF all = {} THEN {} ELSE {CHOOSE s \in all : \A x \in all : s <= x}

\* ids whose loop test in cleanup_expired_* is true
ExpiredIds(pool, t, timeout) ==
    {s \in DOMAIN pool : SessionExpired(pool[s].ts, t, timeout)}

\* connector.disconnect() on every connector in cs
DisconnectAll(client, cs) == [c \in DOMAIN client |-> IF c \in cs THEN FALSE ELSE client[c]]

\* get_*_session(session_id): what the call raises or returns ...
GetOutcome(pool, sid, t, timeout) ==
    IF sid \notin DOMAIN pool THEN "not_found"
    ELSE IF SessionExpired(pool[sid].ts, t, timeout) THEN "expired"
    ELSE "ok"
\* ... the connector it returns (Null when it raises) ...
GetConnector(pool, sid, t, timeout) ==
    IF GetOutcome(pool, sid, t, timeout) = "ok" THEN pool[sid].conn ELSE Null
\* ... the pool it leaves: expired entry deleted, live entry re-stamped ...
PoolAfterGet(pool, sid, t, timeout) ==
    CASE GetOutcome(pool, sid, t, timeout) = "not_found" -> pool
      [] GetOutcome(pool, sid, t, timeout) = "expired" -> Without(pool, sid)
      [] OTHER -> WithEntry(pool, sid, pool[sid].conn, t)
\* an expired entry dropped from the pool without connector.disconnect()
ClientAfterGet_NoDisconnect(client, pool, sid, t, timeout) == client

\* ... and the connectors: the expired entry's connector is disconnected
ClientAfterGet(client, pool, sid, t, timeout) ==
    IF GetOutcome(pool, sid, t, timeout) = "expired"
    THEN DisconnectAll(client, {pool[sid].conn})
    ELSE client

\* ------------------------------------------------------------ K8s pool
create_k8s_session ==
    /\ SessionsCreated < MaxSessions
    /\ LET sid == FreshId(k8s_client) IN
        /\ k8s_client' = [c \in DOMAIN k8s_client \cup {sid} |->
                             IF c = sid THEN FALSE ELSE k8s_client[c]]
        /\ k8s_sessions' = WithEntry(k8s_sessions, sid, sid, now)
        /\ ret' = Ret("create_k8s_session", sid, "ok", sid, 0)
    /\ UNCHANGED <<dbvars, validated, auxvars, last, nreq, sshvars, now>>

\* connector.load_cluster_from_content(...) succeeding on a pooled connector
k8s_load(c) ==
    /\ c \in DOMAIN k8s_client
    /\ k8s_client' = [k8s_client EXCEPT ![c] = TRUE]
    /\ ret' = Ret("k8s_load", Null, "ok", c, 0)
    /\ UNCHANGED <<dbvars, validated, auxvars, last, nreq, k8s_sessions, sshvars, now>>

get_k8s_session(sid) ==
    /\ k8s_sessions' = PoolAfterGet(k8s_sessions, sid, now, K8S_SESSION_TIMEOUT_MINUTES)
    /\ k8s_client' = ClientAfterGet(k8s_client, k8s_sessions, sid, now, K8S_SESSION_TIMEOUT_MINUTES)
    /\ ret' = Ret("get_k8s_session", sid,
                  GetOutcome(k8s_sessions, sid, now, K8S_SESSION_TIMEOUT_MINUTES),
                  GetConnector(k8s_sessions, sid, now, K8S_SESSION_TIMEOUT_MINUTES), 0)
    /\ UNCHANGED <<dbvars, validated, auxvars, last, nreq, sshvars, now>>

close_k8s_session(sid) ==
    /\ IF sid \notin DOMAIN k8s_sessions
       THEN /\ ret' = Ret("close_k8s_session", sid, "false", Null, 0)
            /\ UNCHANGED k8svars
       ELSE /\ k8s_client' = DisconnectAll(k8s_client, {k8s_sessions[sid].conn})
            /\ k8s_sessions' = Without(k8s_sessions, sid)
            /\ ret' = Ret("close_k8s_session", sid, "true", Null, 0)
    /\ UNCHANGED <<dbvars, validated, auxvars, last, nreq, sshvars, now>>

cleanup_expired_k8s_sessions ==
    /\ LET expired_sessions == ExpiredIds(k8s_sessions, now, K8S_SESSION_TIMEOUT_MINUTES) IN
        /\ k8s_client' = DisconnectAll(k8s_client, {k8s_sessions[s].conn : s \in expired_sessions})
        /\ k8s_sessions' = [s \in DOMAIN k8s_sessions \ expired_sessions |-> k8s_sessions[s]]
        /\ ret' = Ret("cleanup_expired_k8s_sessions", Null, "ok", Null, Cardinality(expired_sessions))
    /\ UNCHANGED <<dbvars, validated, auxvars, last, nreq, sshvars, now>>

\* ------------------------------------------------------------ SSH pool
create_ssh_session ==
    /\ SessionsCreated < MaxSessions
    /\ LET sid == FreshId(ssh_client) IN
        /\ ssh_client' = [c \in DOMAIN ssh_client \cup {sid} |->
                             IF c = sid THEN FALSE ELSE ssh_client[c]]
        /\ ssh_sessions' = WithEntry(ssh_sessions, sid, sid, now)
        /\ ssh_born' = [c \in DOMAIN ssh_born \cup {sid} |->
                             IF c = sid THEN now ELSE ssh_born[c]]
        /\ ret' = Ret("create_ssh_session", sid, "ok", sid, 0)
    /\ UNCHANGED <<dbvars, validated, auxvars, last, nreq, k8svars, now>>

\* SSHConnector.connect(...) succeeding on a pooled connector
ssh_connector_connect(c) ==
    /\ c \in DOMAIN ssh_client
    /\ ssh_client' = [ssh_client EXCEPT ![c] = TRUE]
    /\ ret' = Ret("ssh_connector_connect", Null, "ok", c, 0)
    /\ UNCHANGED <<dbvars, validated, auxvars, last, nreq, k8svars, ssh_sessions, ssh_born, now>>

get_ssh_session(sid) ==
    /\ ssh_sessions' = PoolAfterGet(ssh_sessions, sid, now, SESSION_TIMEOUT_MINUTES)
    /\ ssh_client' = ClientAfterGet(ssh_client, ssh_sessions, sid, now, SESSION_TIMEOUT_MINUTES)
    /\ ret' = Ret("get_ssh_session", sid,
                  GetOutcome(ssh_sessions, sid, now, SESSION_TIMEOUT_MINUTES),
                  GetConnector(ssh_sessions, sid, now, SESSION_TIMEOUT_MINUTES), 0)
    /\ UNCHANGED <<dbvars, validated, auxvars, last, nreq, k8svars, ssh_born, now>>

close_ssh_session(sid) ==
    /\ IF sid \notin DOMAIN ssh_sessions
       THEN /\ ret' = Ret("close_ssh_session", sid, "false", Null, 0)
            /\ UNCHANGED <<ssh_sessions, ssh_client>>
       ELSE /\ ssh_client' = DisconnectAll(ssh_client, {ssh_sessions[sid].conn})
            /\ ssh_sessions' = Without(ssh_sessions, sid)
            /\ ret' = Ret("close_ssh_session", sid, "true", Null, 0)
    /\ UNCHANGED <<dbvars, validated, auxvars, last, nreq, k8svars, ssh_born, now>>

cleanup_expired_sessions ==
    /\ LET expired_sessions == ExpiredIds(ssh_sessions, now, SESSION_TIMEOUT_MINUTES) IN
        /\ ssh_client' = DisconnectAll(ssh_client, {ssh_sessions[s].conn : s \in expired_sessions})
        /\ ssh_sessions' = [s \in DOMAIN ssh_sessions \ expired_sessions |-> ssh_sessions[s]]
        /\ ret' = Ret("cleanup_expired_sessions", Null, "ok", Null, Cardinality(expired_sessions))
    /\ UNCHANGED <<dbvars, validated, auxvars, last, nreq, k8svars, ssh_born, now>>

\* the wall clock advances between two calls
Tick ==
    /\ \E d \in TickDeltas :
        /\ now + d <= MaxTime
        /\ now' = now + d
    /\ ret' = Ret("tick", Null, "ok", Null, 0)
    /\ UNCHANGED <<dbvars, validated, auxvars, last, nreq, k8svars, sshvars>>

\* ===================================================================
\*  Policy validation engine (services/validation_service.py)
\* ===================================================================
\* A parsed YAML mapping is a function from its keys to their values; a key
\* the mapping lacks is not in its DOMAIN.

REQUIRED_FIELDS == <<"apiVersion", "kind", "metadata", "spec">>
VALID_KINDS == {"ClusterPolicy", "Policy"}
VALID_API_VERSIONS == {"kyverno.io/v1", "kyverno.io/v2beta1"}
VALIDATION_FAILURE_ACTIONS == {"Audit", "Enforce", "audit", "enforce"}
\* the members of the actions list of _validate_rule
RuleActions == {"validate", "mutate", "generate", "verifyImages"}

\* marks a key left out of a generated document
Absent == "ABSENT"
EmptyMap == [k \in {} |-> Absent]

\* one entry of result["errors"] / result["warnings"]: which check wrote it
\* and the field, rule prefix or value its text names
Msg(check, about) == [check |-> check, about |-> about]

\* a loop over REQUIRED_FIELDS that stops at the first missing field
MissingFields_FirstOnly(policy) ==
    LET all == SelectSeq(REQUIRED_FIELDS, LAMBDA f : f \notin DOMAIN policy)
    IN  IF all = <<>> THEN <<>> ELSE <<Head(all)>>

\* for field in REQUIRED_FIELDS: if field not in policy
MissingFields(policy) == SelectSeq(REQUIRED_FIELDS, LAMBDA f : f \notin DOMAIN policy)

\* dict.get(key, default)
Get(map, key, default) == IF key \in DOMAIN map THEN map[key] ELSE default

\* actions = ["validate", "mutate", "generate", "verifyImages"], in list order
actions == <<"validate", "mutate", "generate", "verifyImages">>

\* sep.join(words)
RECURSIVE Join(_, _)
Join(words, sep) ==
    IF words = <<>> THEN ""
    ELSE IF Len(words) = 1 THEN words[1]
    ELSE words[1] \o sep \o Join(Tail(words), sep)

\* the entry "<rule_prefix>: Rule must have at least one action (<listed>)"
ActionMsg(rule_prefix, listed) ==
    [check |-> "rule_action", about |-> rule_prefix, listed |-> listed]

\* a rule check that asks for every action instead of any
validate_rule_AllActions(rule, index) ==
    LET named == Get(rule, "name", "") /= ""
        by_index == "Rule[" \o ToString(index) \o "]"
        rule_prefix == IF named THEN "Rule '" \o rule["name"] \o "'" ELSE by_index
        has_action == \A action \in RuleActions : action \in DOMAIN rule
    IN  [errors |->
            (IF named THEN <<>> ELSE <<Msg("rule_name", by_index)>>)
            \o (IF "match" \in DOMAIN rule THEN <<>> ELSE <<Msg("rule_match", rule_prefix)>>)
            \o (IF has_action THEN <<>>
                ELSE <<ActionMsg(rule_prefix, Join(actions, ", "))>>),
         warnings |-> <<>>]

\* a rule check whose messages always name the rule by its index
validate_rule_IndexPrefix(rule, index) ==
    LET named == Get(rule, "name", "") /= ""
        by_index == "Rule[" \o ToString(index) \o "]"
        has_action == \E action \in RuleActions : action \in DOMAIN rule
    IN  [errors |->
            (IF named THEN <<>> ELSE <<Msg("rule_name", by_index)>>)
            \o (IF "match" \in DOMAIN rule THEN <<>> ELSE <<Msg("rule_match", by_index)>>)
            \o (IF has_action THEN <<>>
                ELSE <<ActionMsg(by_index, Join(actions, ", "))>>),
         warnings |-> <<>>]

\* _validate_rule(rule, index); index counts from 0
validate_rule(rule, index) ==
    LET named == Get(rule, "name", "") /= ""
        by_index == "Rule[" \o ToString(index) \o "]"
        rule_prefix == IF named THEN "Rule '" \o rule["name"] \o "'" ELSE by_index
        has_action == \E action \in RuleActions : action \in DOMAIN rule
    IN  [errors |->
            (IF named THEN <<>> ELSE <<Msg("rule_name", by_index)>>)
            \o (IF "match" \in DOMAIN rule THEN <<>> ELSE <<Msg("rule_match", rule_prefix)>>)
            \o (IF has_action THEN <<>>
                ELSE <<ActionMsg(rule_prefix, Join(actions, ", "))>>),
         warnings |-> <<>>]

\* for i, rule in enumerate(rules): errors.extend(...)
RECURSIVE RuleErrors(_, _)
RuleErrors(rules, n) ==
    IF n = 0 THEN <<>>
    ELSE RuleErrors(rules, n - 1) \o validate_rule(rules[n], n - 1).errors

\* _validate_spec(spec)
validate_spec(spec) ==
    LET rules == Get(spec, "rules", <<>>)
        action == Get(spec, "validationFailureAction", Absent)
    IN  [errors |->
            (IF rules = <<>> THEN <<Msg("rules", "spec.rules")>> ELSE <<>>)
            \o RuleErrors(rules, Len(rules)),
         warnings |->
            (IF action /= Absent /\ action \notin VALIDATION_FAILURE_ACTIONS
             THEN <<Msg("validationFailureAction", action)>> ELSE <<>>)
            \o (IF "validationFailureActionOverrides" \in DOMAIN spec
                THEN <<Msg("deprecated", "validationFailureActionOverrides")>>
                ELSE <<>>)]

\* dict.update(other): the keys of other overwrite, the remaining keys stay
Update(result, other) ==
    [k \in DOMAIN result \cup DOMAIN other |->
        IF k \in DOMAIN other THEN other[k] ELSE result[k]]

\* validate_policy(policy_yaml) on a text that parses to the mapping policy
validate_policy(policy) ==
    LET missing == MissingFields(policy)
        api_version == policy["apiVersion"]
        kind == policy["kind"]
        metadata == policy["metadata"]
        spec == policy["spec"]
        kind_ok == kind \in VALID_KINDS
        name_ok == Get(metadata, "name", "") /= ""
        \* result after the apiVersion, kind and metadata checks
        checked == [valid |-> kind_ok /\ name_ok,
                    errors |->
                        (IF kind_ok THEN <<>> ELSE <<Msg("kind", kind)>>)
                        \o (IF name_ok THEN <<>> ELSE <<Msg("metadata", "name")>>),
                    warnings |->
                        IF api_version \in VALID_API_VERSIONS THEN <<>>
                        ELSE <<Msg("apiVersion", api_version)>>,
                    info |-> EmptyMap]
        \* result.update(self._validate_spec(spec)); result["info"] = {...}
        updated == Update(checked, validate_spec(spec))
    IN  IF missing /= <<>>
        THEN [valid |-> FALSE,
              errors |-> [i \in DOMAIN missing |-> Msg("missing_field", missing[i])],
              warnings |-> <<>>,
              info |-> EmptyMap]
        ELSE [updated EXCEPT !.info =
                 [name |-> Get(metadata, "name", Absent), kind |-> kind,
                  rules_count |-> Len(Get(spec, "rules", <<>>))]]

\* ------------------------------------------ documents handed to validate
\* the mapping with the keys of ks, each mapped to its value in row
Mapping(ks, row) == [k \in ks |-> row[k]]

\* rules with or without a name, a match block and an action (validate or
\* mutate; the rules without a match block have validate or none)
RuleDocs ==
    LET all == {Mapping({k \in {"name", "match", "validate", "mutate"} :
                           \/ k = "name" /\ name /= Absent
                           \/ k = "match" /\ match
                           \/ k = action},
                        [name |-> name, match |-> "any", validate |-> "deny",
                         mutate |-> "patch"]) :
                   name \in {Absent, "", "r1"},
                   match \in BOOLEAN,
                   action \in {Absent, "validate", "mutate"}}
    IN  {rule \in all : "mutate" \in DOMAIN rule => "match" \in DOMAIN rule}
\* the rule lists of up to max rules, and the documents built on them
RuleLists(max) == UNION {[1..n -> RuleDocs] : n \in 0..max}
\* the mapping with one more key
With(map, key, value) ==
    [k \in DOMAIN map \cup {key} |-> IF k = key THEN value ELSE map[k]]
\* spec mappings without the rules key, and all spec mappings
SpecHeads ==
    {Mapping({k \in {"validationFailureAction", "validationFailureActionOverrides"} :
                 \/ k = "validationFailureAction" /\ action /= Absent
                 \/ k = "validationFailureActionOverrides" /\ overrides},
             [validationFailureAction |-> action,
              validationFailureActionOverrides |-> "any"]) :
        action \in {Absent, "block"}, overrides \in BOOLEAN}
SpecDocs(max) ==
    SpecHeads \cup {With(head, "rules", rules) : head \in SpecHeads, rules \in RuleLists(max)}
MetadataDocs == {EmptyMap, [name |-> ""], [name |-> "p"]}
\* policy mappings without the spec key, and all policy mappings: every spec
\* under the heads that have the three other required fields, the specs of up
\* to one rule under the heads that lack one
PolicyHeads ==
    LET kinds == {Mapping({k \in {"apiVersion", "kind"} :
                             \/ k = "apiVersion" /\ apiVersion /= Absent
                             \/ k = "kind" /\ kind /= Absent},
                          [apiVersion |-> apiVersion, kind |-> kind]) :
                     apiVersion \in {Absent, "kyverno.io/v1", "apps/v1"},
                     kind \in {Absent, "ClusterPolicy", "Deployment"}}
    IN  kinds \cup {With(head, "metadata", metadata) :
                       head \in kinds, metadata \in MetadataDocs}
PolicyDocs(max) ==
    LET complete == {head \in PolicyHeads :
                        DOMAIN head = {"apiVersion", "kind", "metadata"}}
    IN  PolicyHeads
        \cup {With(head, "spec", spec) : head \in complete, spec \in SpecDocs(max)}
        \cup {With(head, "spec", spec) : head \in PolicyHeads \ complete,
                                          spec \in SpecDocs(1)}

\* ===================================================================
\*  Relational store
\* ===================================================================

NullText == "NULL"
\* "field not supplied" in a partial-update body (model_dump(exclude_unset=True))
Unset == -1
UnsetText == "UNSET"

ClusterIds == 1..MaxClusters
TokenIds == 1..MaxTokens
PolicyIds == 1..MaxPolicies
DeploymentIds == 1..MaxDeployments

SetMax(S) == CHOOSE m \in S : \A x \in S : x <= m
\* Integer primary key of a new row (SQLite rowid: largest id in the table + 1)
NextId(rows) == IF rows = {} THEN 1 ELSE SetMax({r.id : r \in rows}) + 1

\* what the last request shows: the handler, the status code, the id of the row
\* it created or addressed, the name it carried (for a deploy request: its
\* parameters), the count named in the error detail, and the failure or
\* connector outcome behind the status code
Resp(op, code, rid, name, cnt, info) ==
    [op |-> op, code |-> code, rid |-> rid, name |-> name, cnt |-> cnt, info |-> info]

AuditLog(action, resource_id, status, error_message) ==
    [action |-> action, resource_id |-> resource_id, status |-> status,
     error_message |-> error_message]
\* a write that overwrites the earlier row of the same action and resource
AddAudit_Upsert(logs, audit) ==
    IF \E i \in DOMAIN logs : /\ logs[i].action = audit.action
                              /\ logs[i].resource_id = audit.resource_id
    THEN [i \in DOMAIN logs |->
             IF /\ logs[i].action = audit.action
                /\ logs[i].resource_id = audit.resource_id
             THEN audit ELSE logs[i]]
    ELSE Append(logs, audit)

\* audit = AuditLog(...); db.add(audit); db.commit(): one INSERT, with a new id
AddAudit(logs, audit) == Append(logs, audit)

\* one more request is served (the model stops at MaxRequests requests)
Served == nreq < MaxRequests /\ nreq' = nreq + 1

\* db.query(Model).filter(Model.id == id).first()
RowById(rows, id) == IF \E r \in rows : r.id = id
                     THEN CHOOSE r \in rows : r.id = id
                     ELSE [id |-> Null]
Exists(rows, id) == \E r \in rows : r.id = id

\* yaml.safe_load(policy_yaml) of the three template texts: a ClusterPolicy
\* with one complete rule, a Policy without rules, and a Deployment
safe_load(policy_yaml) ==
    CASE policy_yaml = "tplA" ->
            [apiVersion |-> "kyverno.io/v1", kind |-> "ClusterPolicy",
             metadata |-> [name |-> "p"],
             spec |-> [rules |-> <<[name |-> "r1", match |-> "any",
                                    validate |-> "deny"]>>]]
      [] policy_yaml = "tplB" ->
            [apiVersion |-> "kyverno.io/v1", kind |-> "Policy",
             metadata |-> [name |-> "p"],
             spec |-> [validationFailureAction |-> "Audit"]]
      [] OTHER ->
            [apiVersion |-> "apps/v1", kind |-> "Deployment",
             metadata |-> [name |-> "p"],
             spec |-> [validationFailureAction |-> "block"]]

\* a check of the YAML syntax alone: validate_yaml(yaml)["valid"]
ValidTemplate_SyntaxOnly(yaml) == yaml \in Templates

\* validator.validate_policy(yaml)["valid"]
ValidTemplate(yaml) == validate_policy(safe_load(yaml)).valid

\* engine.render(template, parameters): the text with the parameters filled in
Render(template) ==
    CASE template = "tplA" -> "tplA-rendered"
      [] template = "tplB" -> "tplB-rendered"
      [] OTHER -> "tplInvalid-rendered"

\* the clusters table without the unique constraint on name
UniqueNameOk_NoConstraint(rows, id, name) == TRUE

\* clusters.name is declared unique=True: a flush that would store a second
\* row with the same name raises IntegrityError
UniqueNameOk(rows, id, name) == ~ \E r \in rows : r.id /= id /\ r.name = name

\* Policy.deployments and Cluster.policies are relationships without a delete
\* cascade: deleting the parent makes the ORM set the children's foreign key
\* to NULL, which the NOT NULL columns policy_deployments.policy_id and
\* policy_deployments.cluster_id reject (IntegrityError)
PolicyDeleteFlushOk(policy_id) == ~ \E d \in deployments : d.policy_id = policy_id
ClusterDeleteFlushOk(cluster_id) == ~ \E d \in deployments : d.cluster_id = cluster_id

\* ------------------------------------------------------- clusters router
create_cluster(name) ==
    /\ Served
    /\ IF \E c \in clusters : c.name = name
       THEN /\ last' = Resp("create_cluster", 400, Null, name, 0, "none")
            /\ UNCHANGED <<clusters, audit_logs>>
       ELSE /\ NextId(clusters) <= MaxClusters
            /\ clusters' = clusters \cup
                   {[id |-> NextId(clusters), name |-> name, server_url |-> NullText]}
            /\ audit_logs' = AddAudit(audit_logs,
                   AuditLog("cluster_create", NextId(clusters), "success", NullText))
            /\ last' = Resp("create_cluster", 200, NextId(clusters), name, 0, "none")
    /\ UNCHANGED <<tokens, policies, deployments, k8svars, sshvars, now, ret, validated, auxvars>>

update_cluster(cluster_id, name) ==
    /\ Served
    /\ IF ~ Exists(clusters, cluster_id)
       THEN /\ last' = Resp("update_cluster", 404, Null, name, 0, "none")
            /\ UNCHANGED clusters
       ELSE IF name = UnsetText
       THEN /\ last' = Resp("update_cluster", 200, cluster_id, name, 0, "none")
            /\ UNCHANGED clusters
       ELSE IF ~ UniqueNameOk(clusters, cluster_id, name)
       THEN /\ last' = Resp("update_cluster", 500, cluster_id, name, 0, "none")
            /\ UNCHANGED clusters
       ELSE /\ clusters' = {IF c.id = cluster_id THEN [c EXCEPT !.name = name] ELSE c
                               : c \in clusters}
            /\ last' = Resp("update_cluster", 200, cluster_id, name, 0, "none")
    /\ UNCHANGED <<tokens, policies, deployments, audit_logs, k8svars, sshvars, now, ret, validated, auxvars>>

delete_cluster(cluster_id) ==
    /\ Served
    /\ IF ~ Exists(clusters, cluster_id)
       THEN /\ last' = Resp("delete_cluster", 404, Null, NullText, 0, "none")
            /\ UNCHANGED <<clusters, tokens, audit_logs>>
       ELSE IF ~ ClusterDeleteFlushOk(cluster_id)
       THEN /\ last' = Resp("delete_cluster", 500, cluster_id, NullText, 0, "none")
            /\ UNCHANGED <<clusters, tokens, audit_logs>>
       ELSE /\ clusters' = {c \in clusters : c.id /= cluster_id}
            /\ tokens' = {t \in tokens : t.cluster_id /= cluster_id}
            /\ audit_logs' = AddAudit(audit_logs,
                   AuditLog("cluster_delete", cluster_id, "success", NullText))
            /\ last' = Resp("delete_cluster", 200, cluster_id, NullText, 0, "none")
    /\ UNCHANGED <<policies, deployments, k8svars, sshvars, now, ret, validated, auxvars>>

\* POST /clusters/ssh/connect; connected: whether ssh.connect(...) succeeds
ssh_connect(connected) ==
    /\ Served
    /\ SessionsCreated < MaxSessions
    /\ LET swept == ExpiredIds(ssh_sessions, now, SESSION_TIMEOUT_MINUTES)
           kept == [s \in DOMAIN ssh_sessions \ swept |-> ssh_sessions[s]]
           closed == DisconnectAll(ssh_client, {ssh_sessions[s].conn : s \in swept})
           sid == FreshId(ssh_client)
       IN  /\ ssh_client' = [c \in DOMAIN closed \cup {sid} |->
                                IF c = sid THEN connected ELSE closed[c]]
           /\ ssh_born' = [c \in DOMAIN ssh_born \cup {sid} |->
                                IF c = sid THEN now ELSE ssh_born[c]]
           /\ IF connected
              THEN /\ ssh_sessions' = WithEntry(kept, sid, sid, now)
                   /\ audit_logs' = AddAudit(audit_logs,
                          AuditLog("ssh_connect", Null, "success", NullText))
                   /\ last' = Resp("ssh_connect", 200, sid, NullText, 0, "none")
              ELSE /\ ssh_sessions' = kept
                   /\ audit_logs' = AddAudit(audit_logs,
                          AuditLog("ssh_connect", Null, "failure", "connect_error"))
                   /\ last' = Resp("ssh_connect", 500, Null, NullText, 0, "none")
    /\ UNCHANGED <<clusters, tokens, policies, deployments, k8svars, now, ret, validated, auxvars>>

SetupFailures == {"none", "kubectl", "service_account", "cluster_commit",
                  "token_commit", "response"}
KyvernoInstalls == {"skip", "installed", "failed"}

\* POST /clusters/setup.  fail: the step of the workflow that fails
\* ("kubectl": the pre-check exits nonzero; "service_account":
\* create_service_account_with_token raises; "cluster_commit"/"token_commit":
\* that db.commit() raises; "response": building the success message or the
\* response raises); install: the optional Kyverno installation
setup_cluster_complete(session_id, cluster_name, fail, install) ==
    LET outcome == GetOutcome(ssh_sessions, session_id, now, SESSION_TIMEOUT_MINUTES)
        ssh == GetConnector(ssh_sessions, session_id, now, SESSION_TIMEOUT_MINUTES)
        cid == NextId(clusters)
        tid == NextId(tokens)
        cluster == [id |-> cid, name |-> cluster_name, server_url |-> "https"]
        sa_token == [id |-> tid, cluster_id |-> cid, is_active |-> TRUE]
        ok_audit == AuditLog("cluster_setup_complete", cid, "success", NullText)
        ky_audit == AuditLog("kyverno_install", cid, "success", NullText)
        fail_audit == AuditLog("cluster_setup_complete", Null, "failure", fail)
    IN
    /\ Served
    /\ ssh_sessions' = PoolAfterGet(ssh_sessions, session_id, now, SESSION_TIMEOUT_MINUTES)
    /\ ssh_client' = ClientAfterGet(ssh_client, ssh_sessions, session_id, now,
                                    SESSION_TIMEOUT_MINUTES)
    /\ IF outcome /= "ok"
       THEN /\ last' = Resp("setup", 400, Null, cluster_name, 0, outcome)
            /\ UNCHANGED <<clusters, tokens, audit_logs>>
       ELSE IF ~ ssh_client[ssh]
       THEN /\ last' = Resp("setup", 400, Null, cluster_name, 0, "not_connected")
            /\ UNCHANGED <<clusters, tokens, audit_logs>>
       ELSE IF fail = "kubectl"
       THEN /\ last' = Resp("setup", 400, Null, cluster_name, 0, fail)
            /\ UNCHANGED <<clusters, tokens, audit_logs>>
       ELSE IF fail = "service_account"
       THEN /\ audit_logs' = AddAudit(audit_logs, fail_audit)
            /\ last' = Resp("setup", 500, Null, cluster_name, 0, fail)
            /\ UNCHANGED <<clusters, tokens>>
       ELSE IF \E c \in clusters : c.name = cluster_name
       THEN /\ last' = Resp("setup", 400, Null, cluster_name, 0, "duplicate")
            /\ UNCHANGED <<clusters, tokens, audit_logs>>
       ELSE IF fail = "cluster_commit"
       THEN /\ audit_logs' = AddAudit(audit_logs, fail_audit)
            /\ last' = Resp("setup", 500, Null, cluster_name, 0, fail)
            /\ UNCHANGED <<clusters, tokens>>
       ELSE IF fail = "token_commit"
       THEN /\ cid <= MaxClusters
            /\ clusters' = clusters \cup {cluster}
            /\ audit_logs' = AddAudit(audit_logs, fail_audit)
            /\ last' = Resp("setup", 500, cid, cluster_name, 0, fail)
            /\ UNCHANGED tokens
       ELSE /\ cid <= MaxClusters
            /\ tid <= MaxTokens
            /\ clusters' = clusters \cup {cluster}
            /\ tokens' = tokens \cup {sa_token}
            /\ LET installed == IF install = "installed" THEN <<ky_audit>> ELSE <<>>
                   failed == IF fail = "response" THEN <<fail_audit>> ELSE <<>>
               IN  audit_logs' = audit_logs \o <<ok_audit>> \o installed \o failed
            /\ last' = IF fail = "response"
                       THEN Resp("setup", 500, cid, cluster_name, 0, fail)
                       ELSE Resp("setup", 200, cid, cluster_name, 0, install)
    /\ UNCHANGED <<policies, deployments, k8svars, ssh_born, now, ret, validated, auxvars>>

\* a delete that removes the token row
SoftDelete_RemoveRow(rows, sa_id) == {t \in rows : t.id /= sa_id}

\* sa_token.is_active = False; db.commit()
SoftDelete(rows, sa_id) ==
    {IF t.id = sa_id THEN [t EXCEPT !.is_active = FALSE] ELSE t : t \in rows}

delete_service_account_token(cluster_id, sa_id) ==
    /\ Served
    /\ IF ~ \E t \in tokens : t.id = sa_id /\ t.cluster_id = cluster_id
       THEN /\ last' = Resp("delete_service_account_token", 404, Null, NullText, 0, "none")
            /\ UNCHANGED <<tokens, audit_logs>>
       ELSE /\ tokens' = SoftDelete(tokens, sa_id)
            /\ audit_logs' = AddAudit(audit_logs,
                   AuditLog("serviceaccount_delete", sa_id, "success", NullText))
            /\ last' = Resp("delete_service_account_token", 200, sa_id, NullText, 0, "none")
    /\ UNCHANGED <<clusters, policies, deployments, k8svars, sshvars, now, ret, validated, auxvars>>

\* POST /clusters/{cluster_id}/serviceaccount.  created: whether
\* ssh.create_service_account_with_token(...) returns (it raises otherwise)
create_service_account(cluster_id, session_id, created) ==
    LET outcome == GetOutcome(ssh_sessions, session_id, now, SESSION_TIMEOUT_MINUTES)
        ssh == GetConnector(ssh_sessions, session_id, now, SESSION_TIMEOUT_MINUTES)
        tid == NextId(tokens)
        sa_token == [id |-> tid, cluster_id |-> cluster_id, is_active |-> TRUE]
    IN
    /\ Served
    /\ IF ~ Exists(clusters, cluster_id)
       THEN /\ last' = Resp("create_service_account", 404, Null, NullText, 0, "none")
            /\ UNCHANGED <<clusters, tokens, audit_logs, ssh_sessions, ssh_client>>
       ELSE /\ ssh_sessions' = PoolAfterGet(ssh_sessions, session_id, now,
                                            SESSION_TIMEOUT_MINUTES)
            /\ ssh_client' = ClientAfterGet(ssh_client, ssh_sessions, session_id, now,
                                            SESSION_TIMEOUT_MINUTES)
            /\ IF outcome /= "ok"
               THEN /\ last' = Resp("create_service_account", 400, Null, NullText, 0, outcome)
                    /\ UNCHANGED <<clusters, tokens, audit_logs>>
               ELSE IF ~ ssh_client[ssh]
               THEN /\ last' = Resp("create_service_account", 400, Null, NullText, 0,
                                    "not_connected")
                    /\ UNCHANGED <<clusters, tokens, audit_logs>>
               ELSE IF ~ created
               THEN /\ audit_logs' = AddAudit(audit_logs,
                           AuditLog("serviceaccount_create", Null, "failure",
                                    "service_account"))
                    /\ last' = Resp("create_service_account", 500, Null, NullText, 0,
                                    "service_account")
                    /\ UNCHANGED <<clusters, tokens>>
               ELSE /\ tid <= MaxTokens
                    /\ clusters' = {IF c.id = cluster_id /\ c.server_url = NullText
                                    THEN [c EXCEPT !.server_url = "https"]
                                    ELSE c : c \in clusters}
                    /\ tokens' = tokens \cup {sa_token}
                    /\ audit_logs' = AddAudit(audit_logs,
                           AuditLog("serviceaccount_create", tid, "success", NullText))
                    /\ last' = Resp("create_service_account", 200, tid, NullText, 0, "none")
    /\ UNCHANGED <<policies, deployments, k8svars, ssh_born, now, ret, validated, auxvars>>

\* a handler that closes its temporary session as the last statement of the
\* try block, which an exception skips
Finally_OnReturnOnly(raised) == ~ raised

\* whether close_k8s_session(session_id) runs once create_k8s_session() has
\* returned, given that the statements in between raised: it is the finally
\* clause of the try statement that follows the creation
Finally(raised) == TRUE

\* the K8s pool and its connectors when a handler that works through a
\* temporary session answers: create_k8s_session(), load_cluster_from_content
\* (loaded tells whether it succeeded), the calls on the connector (raised
\* tells whether any statement of the try block raised), close_k8s_session
TempSession(loaded, raised) ==
    LET sid == FreshId(k8s_client)
        opened == WithEntry(k8s_sessions, sid, sid, now)
        made == [c \in DOMAIN k8s_client \cup {sid} |->
                    IF c = sid THEN loaded ELSE k8s_client[c]]
    IN  IF Finally(raised) /\ sid \in DOMAIN opened
        THEN [sessions |-> Without(opened, sid),
              client |-> DisconnectAll(made, {opened[sid].conn})]
        ELSE [sessions |-> opened, client |-> made]

\* connector.load_cluster_from_content + connector.uninstall_kyverno_helm:
\*   "uninstalled"       helm uninstall exited 0: {"success": True, ...}
\*   "release_not_found" no such release: {"success": False, ...}, no exception
\*   "helm_failed"       helm uninstall exited nonzero: CalledProcessError
\*   "load_failed"       the kubeconfig could not be loaded: ValueError
HelmUninstalls == {"uninstalled", "release_not_found", "helm_failed", "load_failed"}

\* status code of POST /clusters/{id}/kyverno/uninstall once the try block is
\* entered.  The finally block is
\*     close_k8s_session(session_id)
\*     raise HTTPException(status_code=500, detail=f"... {str(e)}")
\* and e is unbound there on every path (never assigned when the try block
\* returns, deleted at the end of the except clause otherwise), so the
\* UnboundLocalError raised in the finally block replaces the returned
\* KyvernoUninstallResponse and the pending HTTPException alike
UninstallStatusCode(helm) == 500

uninstall_kyverno(cluster_id, helm) ==
    LET cluster == RowById(clusters, cluster_id)
        audit == CASE helm = "uninstalled" ->
                        AuditLog("kyverno_uninstall", cluster_id, "success", NullText)
                   [] helm = "release_not_found" ->
                        AuditLog("kyverno_uninstall", cluster_id, "failure", NullText)
                   [] OTHER ->
                        AuditLog("kyverno_uninstall", cluster_id, "failure", helm)
        temp == TempSession(helm /= "load_failed",
                            helm \in {"helm_failed", "load_failed"})
    IN
    /\ Served
    /\ IF ~ Exists(clusters, cluster_id)
       THEN /\ last' = Resp("uninstall_kyverno", 404, Null, NullText, 0, "none")
            /\ UNCHANGED <<audit_logs, k8svars>>
       ELSE IF ~ (/\ \E t \in tokens : t.cluster_id = cluster_id /\ t.is_active
                  /\ cluster.server_url /= NullText)
       THEN /\ last' = Resp("uninstall_kyverno", 400, cluster_id, NullText, 0,
                            "no_credentials")
            /\ UNCHANGED <<audit_logs, k8svars>>
       ELSE /\ SessionsCreated < MaxSessions
            /\ k8s_sessions' = temp.sessions
            /\ k8s_client' = temp.client
            /\ audit_logs' = AddAudit(audit_logs, audit)
            /\ last' = Resp("uninstall_kyverno", UninstallStatusCode(helm), cluster_id,
                            NullText, 0, helm)
    /\ UNCHANGED <<clusters, tokens, policies, deployments, sshvars, now, ret,
                   validated, auxvars>>

\* what the connector does in the four read-only handlers below:
\*   "ok"           the kubeconfig loads and the query returns
\*   "load_failed"  load_cluster_from_content raises ValueError
\*   "query_failed" the query on the loaded connector raises
ClusterQueries == {"ok", "load_failed", "query_failed"}

\* GET /clusters/{id}/namespaces, /info, /kyverno-status and /kyverno/status
\* share one body around a different connector query
cluster_query(op, cluster_id, query) ==
    LET cluster == RowById(clusters, cluster_id)
        temp == TempSession(query /= "load_failed", query /= "ok")
    IN
    /\ Served
    /\ IF ~ Exists(clusters, cluster_id)
       THEN /\ last' = Resp(op, 404, Null, NullText, 0, "none")
            /\ UNCHANGED k8svars
       ELSE IF ~ (/\ \E t \in tokens : t.cluster_id = cluster_id /\ t.is_active
                  /\ cluster.server_url /= NullText)
       THEN /\ last' = Resp(op, 400, cluster_id, NullText, 0, "no_credentials")
            /\ UNCHANGED k8svars
       ELSE /\ SessionsCreated < MaxSessions
            /\ k8s_sessions' = temp.sessions
            /\ k8s_client' = temp.client
            /\ last' = Resp(op, IF query = "ok" THEN 200 ELSE 500, cluster_id,
                            NullText, 0, query)
    /\ UNCHANGED <<dbvars, sshvars, now, ret, validated, auxvars>>

list_namespaces(cluster_id, query) == cluster_query("list_namespaces", cluster_id, query)

get_cluster_info(cluster_id, query) == cluster_query("get_cluster_info", cluster_id, query)

check_kyverno_status(cluster_id, query) ==
    cluster_query("check_kyverno_status", cluster_id, query)

get_kyverno_comprehensive_status(cluster_id, query) ==
    cluster_query("get_kyverno_comprehensive_status", cluster_id, query)

\* connector.load_cluster_from_content + check_helm_installed +
\* install_kyverno_helm in the two install handlers:
\*   "installed"     helm install returned
\*   "load_failed"   the kubeconfig could not be loaded: ValueError
\*   "no_helm"       check_helm_installed() is false (install_kyverno only)
\*   "runtime_error" install_kyverno_helm raises RuntimeError
\*   "helm_failed"   helm exited nonzero: CalledProcessError
HelmInstalls == {"installed", "load_failed", "no_helm", "runtime_error", "helm_failed"}

\* POST /clusters/{id}/install-kyverno: the token is the one named by
\* service_account_id, or the first active one when the field is absent
install_kyverno_with_token(cluster_id, service_account_id, helm) ==
    LET cluster == RowById(clusters, cluster_id)
        found == \E t \in tokens :
                    /\ t.cluster_id = cluster_id /\ t.is_active
                    /\ (service_account_id /= Null => t.id = service_account_id)
        temp == TempSession(helm /= "load_failed", helm /= "installed")
        op == "install_kyverno_with_token"
    IN
    /\ Served
    /\ IF ~ Exists(clusters, cluster_id)
       THEN /\ last' = Resp(op, 404, Null, NullText, 0, "none")
            /\ UNCHANGED <<audit_logs, k8svars>>
       ELSE IF ~ found
       THEN /\ last' = Resp(op, 404, cluster_id, NullText, 0, "no_token")
            /\ UNCHANGED <<audit_logs, k8svars>>
       ELSE IF cluster.server_url = NullText
       THEN /\ last' = Resp(op, 400, cluster_id, NullText, 0, "no_credentials")
            /\ UNCHANGED <<audit_logs, k8svars>>
       ELSE /\ SessionsCreated < MaxSessions
            /\ k8s_sessions' = temp.sessions
            /\ k8s_client' = temp.client
            /\ audit_logs' = AddAudit(audit_logs,
                   IF helm = "installed"
                   THEN AuditLog("kyverno_install_via_token", cluster_id, "success", NullText)
                   ELSE AuditLog("kyverno_install_via_token", cluster_id, "failure", helm))
            /\ last' = Resp(op, CASE helm = "installed" -> 200
                                  [] helm = "runtime_error" -> 400
                                  [] OTHER -> 500,
                            cluster_id, NullText, 0, helm)
    /\ UNCHANGED <<clusters, tokens, policies, deployments, sshvars, now, ret,
                   validated, auxvars>>

\* POST /clusters/{id}/kyverno/install: the HTTPException(400) raised in the
\* try block when Helm is missing is caught by except Exception with the rest
install_kyverno(cluster_id, helm) ==
    LET cluster == RowById(clusters, cluster_id)
        temp == TempSession(helm /= "load_failed", helm /= "installed")
    IN
    /\ Served
    /\ IF ~ Exists(clusters, cluster_id)
       THEN /\ last' = Resp("install_kyverno", 404, Null, NullText, 0, "none")
            /\ UNCHANGED <<audit_logs, k8svars>>
       ELSE IF ~ (/\ \E t \in tokens : t.cluster_id = cluster_id /\ t.is_active
                  /\ cluster.server_url /= NullText)
       THEN /\ last' = Resp("install_kyverno", 400, cluster_id, NullText, 0,
                            "no_credentials")
            /\ UNCHANGED <<audit_logs, k8svars>>
       ELSE /\ SessionsCreated < MaxSessions
            /\ k8s_sessions' = temp.sessions
            /\ k8s_client' = temp.client
            /\ audit_logs' = AddAudit(audit_logs,
                   IF helm = "installed"
                   THEN AuditLog("kyverno_install", cluster_id, "success", NullText)
                   ELSE AuditLog("kyverno_install", cluster_id, "failure", helm))
            /\ last' = Resp("install_kyverno", CASE helm = "installed" -> 200
                                                 [] helm = "runtime_error" -> 400
                                                 [] OTHER -> 500,
                            cluster_id, NullText, 0, helm)
    /\ UNCHANGED <<clusters, tokens, policies, deployments, sshvars, now, ret,
                   validated, auxvars>>


\* ------------------------------------------------------- policies router
create_policy(name, cluster_id, yaml_template) ==
    /\ Served
    /\ IF ~ Exists(clusters, cluster_id)
       THEN /\ last' = Resp("create_policy", 404, Null, name, 0, "none")
            /\ UNCHANGED <<policies, audit_logs>>
       ELSE IF ~ ValidTemplate(yaml_template)
       THEN /\ last' = Resp("create_policy", 400, Null, name, 0, "invalid")
            /\ UNCHANGED <<policies, audit_logs>>
       ELSE IF \E p \in policies : p.name = name /\ p.cluster_id = cluster_id
       THEN /\ last' = Resp("create_policy", 400, Null, name, 0, "duplicate")
            /\ UNCHANGED <<policies, audit_logs>>
       ELSE /\ NextId(policies) <= MaxPolicies
            /\ policies' = policies \cup
                   {[id |-> NextId(policies), name |-> name, cluster_id |-> cluster_id,
                     yaml_template |-> yaml_template]}
            /\ audit_logs' = AddAudit(audit_logs,
                   AuditLog("policy_create", NextId(policies), "success", NullText))
            /\ last' = Resp("create_policy", 200, NextId(policies), name, 0, "none")
    /\ UNCHANGED <<clusters, tokens, deployments, k8svars, sshvars, now, ret, validated, auxvars>>

\* the row with every supplied field of the update body set on it
PatchPolicy(p, name, cluster_id, yaml_template) ==
    [id |-> p.id,
     name |-> IF name = UnsetText THEN p.name ELSE name,
     cluster_id |-> IF cluster_id = Unset THEN p.cluster_id ELSE cluster_id,
     yaml_template |-> IF yaml_template = UnsetText THEN p.yaml_template ELSE yaml_template]

update_policy(policy_id, name, cluster_id, yaml_template) ==
    /\ Served
    /\ IF ~ Exists(policies, policy_id)
       THEN /\ last' = Resp("update_policy", 404, Null, name, 0, "none")
            /\ UNCHANGED policies
       ELSE IF yaml_template /= UnsetText /\ ~ ValidTemplate(yaml_template)
       THEN /\ last' = Resp("update_policy", 400, policy_id, name, 0, "invalid")
            /\ UNCHANGED policies
       ELSE /\ policies' = {IF p.id = policy_id
                            THEN PatchPolicy(p, name, cluster_id, yaml_template)
                            ELSE p : p \in policies}
            /\ last' = Resp("update_policy", 200, policy_id, name, 0, "none")
    /\ UNCHANGED <<clusters, tokens, deployments, audit_logs, k8svars, sshvars, now, ret, validated, auxvars>>

\* .filter(policy_id == id, status == "deployed").count()
ActiveDeployments(policy_id) ==
    Cardinality({d \in deployments : d.policy_id = policy_id /\ d.status = "deployed"})

\* a delete that looks at no deployment and that the store does not refuse
delete_policy_Unguarded(policy_id) ==
    /\ Served
    /\ IF ~ Exists(policies, policy_id)
       THEN /\ last' = Resp("delete_policy", 404, Null, NullText, 0, "none")
            /\ UNCHANGED <<policies, audit_logs>>
       ELSE /\ policies' = {p \in policies : p.id /= policy_id}
            /\ audit_logs' = AddAudit(audit_logs,
                   AuditLog("policy_delete", policy_id, "success", NullText))
            /\ last' = Resp("delete_policy", 200, policy_id, NullText, 0, "none")
    /\ UNCHANGED <<clusters, tokens, deployments, k8svars, sshvars, now, ret, validated, auxvars>>

delete_policy(policy_id) ==
    /\ Served
    /\ IF ~ Exists(policies, policy_id)
       THEN /\ last' = Resp("delete_policy", 404, Null, NullText, 0, "none")
            /\ UNCHANGED <<policies, audit_logs>>
       ELSE IF ActiveDeployments(policy_id) > 0
       THEN /\ last' = Resp("delete_policy", 400, policy_id, NullText, ActiveDeployments(policy_id), "none")
            /\ UNCHANGED <<policies, audit_logs>>
       ELSE IF ~ PolicyDeleteFlushOk(policy_id)
       THEN /\ last' = Resp("delete_policy", 500, policy_id, NullText, 0, "none")
            /\ UNCHANGED <<policies, audit_logs>>
       ELSE /\ policies' = {p \in policies : p.id /= policy_id}
            /\ audit_logs' = AddAudit(audit_logs,
                   AuditLog("policy_delete", policy_id, "success", NullText))
            /\ last' = Resp("delete_policy", 200, policy_id, NullText, 0, "none")
    /\ UNCHANGED <<clusters, tokens, deployments, k8svars, sshvars, now, ret, validated, auxvars>>

\* request.parameters: absent (None), the empty map, a map the template
\* renders with, or a map on which engine.render raises
Parameters == {"none", "empty", "renders", "render_error"}
\* connector.load_cluster_from_content + connector.apply_yaml:
\*   "created"     every manifest was created or replaced
\*   "item_failed" apply_yaml returned, with an item of status "failed"
\*   "raised"      one of the two calls raised
ApplyOutcomes == {"created", "item_failed", "raised"}

\* what the except branch does with the outcome of the try block
ApplyRaised(apply) == apply = "raised"

\* every deploy request stores the rendered text
YamlContent_AlwaysRendered(yaml_template, parameters) == Render(yaml_template)

\* yaml_content = policy.yaml_template
\* if request.parameters: yaml_content = engine.render(...)
\* (None and {} are both falsy)
YamlContent(yaml_template, parameters) ==
    IF parameters \in {"none", "empty"} THEN yaml_template ELSE Render(yaml_template)

\* a deploy that overwrites the earlier row of the same policy and cluster
InsertDeployment_Upsert(rows, deployment) ==
    {r \in rows : ~ (/\ r.policy_id = deployment.policy_id
                     /\ r.cluster_id = deployment.cluster_id)} \cup {deployment}

\* deployment = PolicyDeployment(...); db.add(deployment); db.commit(), and the
\* later assignments to that same object
InsertDeployment(rows, deployment) == rows \cup {deployment}

HasCredentials(cluster) ==
    /\ \E t \in tokens : t.cluster_id = cluster.id /\ t.is_active
    /\ cluster.server_url /= NullText

deploy_policy(policy_id, request_cluster_id, parameters, apply) ==
    LET policy == RowById(policies, policy_id)
        target_cluster_id == IF request_cluster_id /= Null THEN request_cluster_id
                             ELSE policy.cluster_id
        cluster == RowById(clusters, target_cluster_id)
        yaml_content == YamlContent(policy.yaml_template, parameters)
        did == NextId(deployments)
        deployment == [id |-> did, policy_id |-> policy_id,
                       cluster_id |-> target_cluster_id, status |-> "pending",
                       deployed_yaml |-> yaml_content, deployed_at |-> NullText,
                       error_message |-> NullText]
    IN
    /\ Served
    /\ IF ~ Exists(policies, policy_id)
       THEN /\ last' = Resp("deploy_policy", 404, Null, parameters, 0, "none")
            /\ UNCHANGED <<deployments, audit_logs>>
       ELSE IF target_cluster_id = Null
       THEN /\ last' = Resp("deploy_policy", 400, Null, parameters, 0, "no_cluster")
            /\ UNCHANGED <<deployments, audit_logs>>
       ELSE IF request_cluster_id /= Null /\ policy.cluster_id /= Null
               /\ request_cluster_id /= policy.cluster_id
       THEN /\ last' = Resp("deploy_policy", 400, Null, parameters, 0, "mismatch")
            /\ UNCHANGED <<deployments, audit_logs>>
       ELSE IF ~ Exists(clusters, target_cluster_id)
       THEN /\ last' = Resp("deploy_policy", 404, Null, parameters, 0, "no_cluster")
            /\ UNCHANGED <<deployments, audit_logs>>
       ELSE IF parameters = "render_error"
       THEN /\ last' = Resp("deploy_policy", 400, Null, parameters, 0, "render_error")
            /\ UNCHANGED <<deployments, audit_logs>>
       ELSE /\ did <= MaxDeployments
            /\ IF ~ HasCredentials(cluster)
               THEN /\ deployments' = InsertDeployment(deployments,
                         [deployment EXCEPT !.status = "failed",
                                            !.error_message = "missing_credentials"])
                    /\ last' = Resp("deploy_policy", 400, did, parameters, 0, "no_credentials")
                    /\ UNCHANGED audit_logs
               ELSE IF ApplyRaised(apply)
               THEN /\ deployments' = InsertDeployment(deployments,
                         [deployment EXCEPT !.status = "failed",
                                            !.error_message = "apply_error"])
                    /\ audit_logs' = AddAudit(audit_logs,
                           AuditLog("policy_deploy", did, "failure", "apply_error"))
                    /\ last' = Resp("deploy_policy", 500, did, parameters, 0, apply)
               ELSE /\ deployments' = InsertDeployment(deployments,
                         [deployment EXCEPT !.status = "deployed",
                                            !.deployed_at = "utcnow"])
                    /\ audit_logs' = AddAudit(audit_logs,
                           AuditLog("policy_deploy", did, "success", NullText))
                    /\ last' = Resp("deploy_policy", 200, did, parameters, 0, apply)
    /\ UNCHANGED <<clusters, tokens, policies, k8svars, sshvars, now, ret, validated, auxvars>>

\* outcome of the try block of remove_deployment, entered when the row is
\* deployed and its policy and cluster rows exist: the first statement reads
\* cluster.kubeconfig_path, which Cluster does not define, so AttributeError
\* is raised before load_cluster or connector.delete_policy is called
LiveDelete(status, policy_found, cluster_found) ==
    IF status = "deployed" /\ policy_found /\ cluster_found
    THEN "raised" ELSE "not_attempted"

\* an error of the live delete that is let through: the row keeps its status
StatusAfterRemove_ErrorBlocks(status, live) ==
    IF live = "raised" THEN status ELSE "removed"

\* except Exception: pass, then deployment.status = "removed"
StatusAfterRemove(status, live) == "removed"

remove_deployment(deployment_id) ==
    LET deployment == RowById(deployments, deployment_id)
        live == LiveDelete(deployment.status,
                           Exists(policies, deployment.policy_id),
                           Exists(clusters, deployment.cluster_id))
    IN
    /\ Served
    /\ IF ~ Exists(deployments, deployment_id)
       THEN /\ last' = Resp("remove_deployment", 404, Null, NullText, 0, "none")
            /\ UNCHANGED deployments
       ELSE /\ deployments' = {IF d.id = deployment_id
                               THEN [d EXCEPT !.status = StatusAfterRemove(d.status, live)]
                               ELSE d : d \in deployments}
            /\ last' = Resp("remove_deployment", 200, deployment_id, NullText, 0, live)
    /\ UNCHANGED <<clusters, tokens, policies, audit_logs, k8svars, sshvars, now, ret, validated, auxvars>>

\* POST /policies/validate
validate_policy_request ==
    /\ ~ validated.called
    /\ validated' = [doc |-> validated.doc, called |-> TRUE,
                     result |-> validate_policy(validated.doc)]
    /\ UNCHANGED <<dbvars, last, nreq, k8svars, sshvars, now, ret, auxvars>>

\* ===================================================================
\*  POST /policies/deploy, call by call (routers/policies.py)
\* ===================================================================

\* one task per request, numbered in arrival order
TaskIds == 1..MaxRequests

NoTask == [pc |-> "idle", cluster_id |-> Null, deployment_id |-> Null,
           applied_to |-> Null, parameters |-> "none"]

\* a handler that hands the event loop back around its blocking connector calls
Yields_AtBlockingCalls(call) == call \in {"load_cluster_from_content", "apply_yaml"}

\* whether the event loop may run another request when the handler reaches
\* the call: deploy_policy is an async def without a single await, its
\* connector calls are plain synchronous calls
Yields(call) == FALSE

\* deployment.status = ..., db.commit() on the row the task inserted
SetStatus(rows, id, status, deployed_at, error_message) ==
    {IF d.id = id THEN [d EXCEPT !.status = status, !.deployed_at = deployed_at,
                                 !.error_message = error_message]
     ELSE d : d \in rows}

\* a request arrives: the look-ups, the rendering, the pending row and the
\* credentials look-up, up to the try block
deploy_policy_pending(policy_id, request_cluster_id, parameters) ==
    LET t == nreq + 1
        policy == RowById(policies, policy_id)
        target_cluster_id == IF request_cluster_id /= Null THEN request_cluster_id
                             ELSE policy.cluster_id
        cluster == RowById(clusters, target_cluster_id)
        did == NextId(deployments)
        deployment == [id |-> did, policy_id |-> policy_id,
                       cluster_id |-> target_cluster_id, status |-> "pending",
                       deployed_yaml |-> YamlContent(policy.yaml_template, parameters),
                       deployed_at |-> NullText, error_message |-> NullText]
        rejected(code, info) ==
            /\ last' = Resp("deploy_policy", code, Null, parameters, 0, info)
            /\ tasks' = [tasks EXCEPT ![t] = [NoTask EXCEPT !.pc = "done",
                                                            !.parameters = parameters]]
            /\ UNCHANGED <<deployments, running>>
    IN
    /\ Served
    /\ running = Null
    /\ IF ~ Exists(policies, policy_id) THEN rejected(404, "none")
       ELSE IF target_cluster_id = Null THEN rejected(400, "no_cluster")
       ELSE IF request_cluster_id /= Null /\ policy.cluster_id /= Null
               /\ request_cluster_id /= policy.cluster_id
       THEN rejected(400, "mismatch")
       ELSE IF ~ Exists(clusters, target_cluster_id) THEN rejected(404, "no_cluster")
       ELSE IF parameters = "render_error" THEN rejected(400, "render_error")
       ELSE /\ did <= MaxDeployments
            /\ IF ~ HasCredentials(cluster)
               THEN /\ deployments' = InsertDeployment(deployments,
                         [deployment EXCEPT !.status = "failed",
                                            !.error_message = "missing_credentials"])
                    /\ last' = Resp("deploy_policy", 400, did, parameters, 0, "no_credentials")
                    /\ tasks' = [tasks EXCEPT ![t] =
                                    [NoTask EXCEPT !.pc = "done", !.deployment_id = did,
                                                   !.cluster_id = target_cluster_id,
                                                   !.parameters = parameters]]
                    /\ UNCHANGED running
               ELSE /\ deployments' = InsertDeployment(deployments, deployment)
                    /\ tasks' = [tasks EXCEPT ![t] =
                                    [NoTask EXCEPT !.pc = "load", !.deployment_id = did,
                                                   !.cluster_id = target_cluster_id,
                                                   !.parameters = parameters]]
                    /\ running' = IF Yields("load_cluster_from_content") THEN Null ELSE t
                    /\ UNCHANGED last
    /\ UNCHANGED <<clusters, tokens, policies, audit_logs, k8svars, sshvars, now, ret,
                   validated, report, migration, connector_instance,
                   connector, tmpdir>>

\* except Exception of the try block: the row fails, a failure entry is logged
deploy_policy_failed(t, applied_to) ==
    /\ deployments' = SetStatus(deployments, tasks[t].deployment_id, "failed",
                                NullText, "apply_error")
    /\ audit_logs' = AddAudit(audit_logs,
           AuditLog("policy_deploy", tasks[t].deployment_id, "failure", "apply_error"))
    /\ tasks' = [tasks EXCEPT ![t].pc = "done", ![t].applied_to = applied_to]
    /\ last' = Resp("deploy_policy", 500, tasks[t].deployment_id, tasks[t].parameters,
                    0, "raised")
    /\ running' = Null

\* connector = get_k8s_connector(); connector.load_cluster_from_content(...):
\* the one connector of the process takes the credentials of the task's cluster
deploy_policy_load(t, loaded) ==
    /\ tasks[t].pc = "load"
    /\ running \in {Null, t}
    /\ IF loaded
       THEN /\ connector_instance' = tasks[t].cluster_id
            /\ tasks' = [tasks EXCEPT ![t].pc = "apply"]
            /\ running' = IF Yields("apply_yaml") THEN Null ELSE t
            /\ UNCHANGED <<deployments, audit_logs, last>>
       ELSE /\ deploy_policy_failed(t, Null)
            /\ UNCHANGED connector_instance
    /\ UNCHANGED <<clusters, tokens, policies, nreq, k8svars, sshvars, now, ret,
                   validated, report, migration, connector, tmpdir>>

\* connector.apply_yaml(...): the manifest goes to whatever cluster the
\* connector has loaded by now; then the row, the audit entry, the response
deploy_policy_apply(t, apply) ==
    /\ tasks[t].pc = "apply"
    /\ running \in {Null, t}
    /\ IF ApplyRaised(apply)
       THEN deploy_policy_failed(t, connector_instance)
       ELSE /\ deployments' = SetStatus(deployments, tasks[t].deployment_id, "deployed",
                                        "utcnow", NullText)
            /\ audit_logs' = AddAudit(audit_logs,
                   AuditLog("policy_deploy", tasks[t].deployment_id, "success", NullText))
            /\ tasks' = [tasks EXCEPT ![t].pc = "done",
                                      ![t].applied_to = connector_instance]
            /\ last' = Resp("deploy_policy", 200, tasks[t].deployment_id,
                            tasks[t].parameters, 0, apply)
            /\ running' = Null
    /\ UNCHANGED <<clusters, tokens, policies, nreq, k8svars, sshvars, now, ret,
                   validated, report, migration, connector_instance,
                   connector, tmpdir>>

\* ===================================================================
\*  K8sConnector and its temporary kubeconfig file (services/k8s_connector.py)
\* ===================================================================

\* K8sConnector.__init__ in an empty temporary directory
ConnectorInit ==
    /\ connector = [api_client |-> FALSE, current_kubeconfig |-> Null,
                    temp_kubeconfig |-> Null]
    /\ tmpdir = [made |-> 0, files |-> {}]

\* load_cluster_from_content(kubeconfig_content) with content that is empty,
\* that load_kube_config accepts ("valid") or that it rejects ("invalid");
\* mkstemp names the new file by a name never used before
load_cluster_from_content(kubeconfig_content) ==
    LET kept == IF connector.temp_kubeconfig /= Null
                   /\ connector.temp_kubeconfig \in tmpdir.files
                THEN tmpdir.files \ {connector.temp_kubeconfig}
                ELSE tmpdir.files
        temp_path == tmpdir.made + 1
    IN
    /\ IF kubeconfig_content = "empty"
       THEN /\ ret' = Ret("load_cluster_from_content", Null, "ValueError", Null, 0)
            /\ UNCHANGED <<connector, tmpdir>>
       ELSE /\ tmpdir.made < MaxLoads
            /\ IF kubeconfig_content = "valid"
               THEN /\ connector' = [api_client |-> TRUE, current_kubeconfig |-> temp_path,
                                     temp_kubeconfig |-> temp_path]
                    /\ tmpdir' = [made |-> temp_path, files |-> kept \cup {temp_path}]
                    /\ ret' = Ret("load_cluster_from_content", Null, "ok", Null, 0)
               ELSE /\ tmpdir' = [made |-> temp_path, files |-> kept]
                    /\ ret' = Ret("load_cluster_from_content", Null, "ValueError", Null,
                                  temp_path)
                    /\ UNCHANGED connector
    /\ UNCHANGED <<dbvars, last, nreq, k8svars, sshvars, now, validated, report, migration,
                   loopvars>>

\* cleanup(): the temporary file is removed, the client and the path in
\* effect are left as they are
cleanup ==
    /\ IF connector.temp_kubeconfig /= Null /\ connector.temp_kubeconfig \in tmpdir.files
       THEN /\ tmpdir' = [tmpdir EXCEPT !.files = @ \ {connector.temp_kubeconfig}]
            /\ connector' = [connector EXCEPT !.temp_kubeconfig = Null]
       ELSE UNCHANGED <<connector, tmpdir>>
    /\ ret' = Ret("cleanup", Null, "ok", Null, 0)
    /\ UNCHANGED <<dbvars, last, nreq, k8svars, sshvars, now, validated, report, migration,
                   loopvars>>

\* disconnect(): the client and the path in effect are dropped, the
\* temporary file and _temp_kubeconfig are left as they are
disconnect ==
    /\ connector' = [connector EXCEPT !.api_client = FALSE, !.current_kubeconfig = Null]
    /\ ret' = Ret("disconnect", Null, "ok", Null, 0)
    /\ UNCHANGED <<dbvars, last, nreq, k8svars, sshvars, now, validated, report, migration,
                   loopvars, tmpdir>>

\* ===================================================================
\*  Compliance reports (services/report_generator.py)
\* ===================================================================

\* Python None (the value of dict.get for a missing key)
None == "None"

\* the entries of a policies list and of a violations list: each with or
\* without its name key
ReportPolicies == {EmptyMap, [name |-> "a"], [name |-> "b"]}
Violations == {EmptyMap, [policy_name |-> "a"], [policy_name |-> "b"]}

\* violation_lookup.get(policy_name, []): the violations, in list order,
\* whose v.get("policy_name") is policy_name
PolicyViolations(violations, policy_name) ==
    SelectSeq(violations, LAMBDA v : Get(v, "policy_name", None) = policy_name)

\* a test that looks at include_passed alone
DetailIncluded_PassedFlagOnly(status, include_passed, include_failed) == include_passed

\* (status == "passed" and include_passed) or (status == "failed" and include_failed)
DetailIncluded(status, include_passed, include_failed) ==
    \/ status = "passed" /\ include_passed
    \/ status = "failed" /\ include_failed

\* the body of `for policy in policies`, applied to the first n policies
RECURSIVE ProcessPolicies(_, _, _, _, _)
ProcessPolicies(policy_list, n, violations, include_passed, include_failed) ==
    IF n = 0
    THEN [summary |-> [total_policies |-> Len(policy_list), passed |-> 0, failed |-> 0,
                       warnings |-> 0],
          details |-> <<>>]
    ELSE LET before == ProcessPolicies(policy_list, n - 1, violations, include_passed,
                                       include_failed)
             policy_name == Get(policy_list[n], "name", None)
             policy_violations == PolicyViolations(violations, policy_name)
             status == IF policy_violations = <<>> THEN "passed" ELSE "failed"
             summary == IF status = "passed"
                        THEN [before.summary EXCEPT !.passed = @ + 1]
                        ELSE [before.summary EXCEPT !.failed = @ + 1]
             detail == [policy_name |-> policy_name, status |-> status,
                        violation_count |-> Len(policy_violations),
                        violations |-> IF status = "failed" THEN policy_violations
                                       ELSE <<>>]
         IN  [summary |-> summary,
              details |-> IF DetailIncluded(status, include_passed, include_failed)
                          THEN Append(before.details, detail)
                          ELSE before.details]

\* ReportGenerator.generate_compliance_report (cluster_name and generated_at
\* are copied into the report and play no part in summary or details)
generate_compliance_report(policy_list, violations, include_passed, include_failed) ==
    ProcessPolicies(policy_list, Len(policy_list), violations, include_passed, include_failed)

\* the arguments of a call that has not been made yet
ReportCall(policy_list, violations, include_passed, include_failed) ==
    [policies |-> policy_list, violations |-> violations,
     include_passed |-> include_passed, include_failed |-> include_failed,
     called |-> FALSE, result |-> NullText]
NoReport == ReportCall(<<>>, <<>>, TRUE, TRUE)

\* one call of generate_compliance_report
build_compliance_report ==
    /\ ~ report.called
    /\ report' = [report EXCEPT
                     !.called = TRUE,
                     !.result = generate_compliance_report(
                                    report.policies, report.violations,
                                    report.include_passed, report.include_failed)]
    /\ UNCHANGED <<dbvars, last, nreq, k8svars, sshvars, now, ret, validated, migration, loopvars,
                   connector, tmpdir>>

\* ===================================================================
\*  Schema migration (add_cluster_id_to_policies.py)
\* ===================================================================

\* the file kyverno_manager.db: missing, a database without a policies table,
\* or a database whose policies table has the listed columns
Database(file, columns) == [file |-> file, columns |-> columns]

\* PRAGMA table_info(policies): the column names, none for a missing table
TableInfo(db) == IF db.file = "has_policies" THEN db.columns ELSE <<>>

\* a script without the check, which always goes on to ALTER TABLE
ColumnExists_Unchecked(columns, name) == FALSE

\* 'cluster_id' in columns
ColumnExists(columns, name) == \E i \in DOMAIN columns : columns[i] = name

\* ALTER TABLE policies ADD COLUMN <name>: SQLite raises when the table is
\* missing, when it already has a column of that name, or when the statement
\* cannot run (locked: the database is locked or read-only)
AlterRaises(db, name, locked) ==
    \/ db.file /= "has_policies"
    \/ \E i \in DOMAIN db.columns : db.columns[i] = name
    \/ locked

\* no run yet
NotRun == [exit |-> Null, outcome |-> "none", runs |-> 0]

\* one run of the script, to its sys.exit
add_cluster_id_to_policies(locked) ==
    LET db == migration.db
        runs == migration.runs + 1
    IN
    /\ migration.runs < MaxRuns
    /\ IF db.file = "missing"
       THEN migration' = [db |-> db, exit |-> 1, outcome |-> "not_found", runs |-> runs]
       ELSE IF ColumnExists(TableInfo(db), "cluster_id")
       THEN migration' = [db |-> db, exit |-> 0, outcome |-> "exists", runs |-> runs]
       ELSE IF AlterRaises(db, "cluster_id", locked)
       THEN migration' = [db |-> db, exit |-> 1, outcome |-> "database_error",
                          runs |-> runs]
       ELSE migration' = [db |-> Database(db.file, Append(db.columns, "cluster_id")),
                          exit |-> 0, outcome |-> "added", runs |-> runs]
    /\ UNCHANGED <<dbvars, last, nreq, k8svars, sshvars, now, ret, validated, report, loopvars,
                   connector, tmpdir>>

\* ===================================================================
\*  Request routing (main.py, the @router decorators)
\* ===================================================================
\* A path is the sequence of its segments: "/policies/" is <<"policies", "">>.

\* one @router.<method>("<path>") registration, with the router's prefix
Route(method, path, endpoint) == [method |-> method, path |-> path, endpoint |-> endpoint]

\* the routes of the three routers, in the order the decorators run
ClusterRoutes ==
    <<Route("POST", <<"clusters", "connect">>, "connect_cluster"),
      Route("POST", <<"clusters", "disconnect">>, "disconnect_cluster"),
      Route("POST", <<"clusters", "">>, "create_cluster"),
      Route("GET", <<"clusters", "">>, "list_clusters"),
      Route("GET", <<"clusters", "{cluster_id}", "namespaces">>, "list_namespaces"),
      Route("GET", <<"clusters", "{cluster_id}", "info">>, "get_cluster_info"),
      Route("GET", <<"clusters", "{cluster_id}", "kyverno-status">>,
            "check_kyverno_status"),
      Route("GET", <<"clusters", "{cluster_id}", "kyverno", "status">>,
            "get_kyverno_comprehensive_status"),
      Route("POST", <<"clusters", "{cluster_id}", "install-kyverno">>,
            "install_kyverno_with_token"),
      Route("POST", <<"clusters", "{cluster_id}", "kyverno", "install">>,
            "install_kyverno"),
      Route("POST", <<"clusters", "{cluster_id}", "kyverno", "uninstall">>,
            "uninstall_kyverno"),
      Route("GET", <<"clusters", "{cluster_id}">>, "get_cluster"),
      Route("PUT", <<"clusters", "{cluster_id}">>, "update_cluster"),
      Route("DELETE", <<"clusters", "{cluster_id}">>, "delete_cluster"),
      Route("POST", <<"clusters", "ssh", "connect">>, "ssh_connect"),
      Route("POST", <<"clusters", "ssh", "execute">>, "ssh_execute_command"),
      Route("POST", <<"clusters", "ssh", "kubeconfig">>, "ssh_get_kubeconfig"),
      Route("GET", <<"clusters", "ssh", "minikube-status">>, "ssh_check_minikube"),
      Route("POST", <<"clusters", "ssh", "kyverno", "install">>, "ssh_install_kyverno"),
      Route("POST", <<"clusters", "ssh", "disconnect">>, "ssh_disconnect"),
      Route("GET", <<"clusters", "ssh", "status">>, "ssh_connection_status"),
      Route("GET", <<"clusters", "ssh", "sessions">>, "list_ssh_sessions"),
      Route("GET", <<"clusters", "ssh", "k8s-api-info">>, "get_kubernetes_api_info"),
      Route("GET", <<"clusters", "ssh", "kubectl-check">>, "check_kubectl_connectivity"),
      Route("POST", <<"clusters", "setup">>, "setup_cluster_complete"),
      Route("GET", <<"clusters", "{cluster_id}", "serviceaccounts">>,
            "list_service_accounts"),
      Route("POST", <<"clusters", "connect-with-token">>, "connect_with_token"),
      Route("DELETE", <<"clusters", "{cluster_id}", "serviceaccount", "{sa_id}">>,
            "delete_service_account_token"),
      Route("POST", <<"clusters", "{cluster_id}", "connect">>, "connect_saved_cluster"),
      Route("POST", <<"clusters", "{cluster_id}", "serviceaccount", "{sa_id}", "connect">>,
            "connect_with_saved_token"),
      Route("POST", <<"clusters", "{cluster_id}", "serviceaccount">>,
            "create_service_account")>>

PolicyRoutes ==
    <<Route("POST", <<"policies", "">>, "create_policy"),
      Route("GET", <<"policies", "">>, "list_policies"),
      Route("GET", <<"policies", "cluster", "{cluster_id}">>, "list_cluster_policies"),
      Route("GET", <<"policies", "{policy_id}">>, "get_policy"),
      Route("PUT", <<"policies", "{policy_id}">>, "update_policy"),
      Route("DELETE", <<"policies", "{policy_id}">>, "delete_policy"),
      Route("POST", <<"policies", "validate">>, "validate_policy"),
      Route("POST", <<"policies", "render">>, "render_policy_template"),
      Route("POST", <<"policies", "deploy">>, "deploy_policy"),
      Route("GET", <<"policies", "deployments">>, "list_deployments"),
      Route("DELETE", <<"policies", "deployments", "{deployment_id}">>,
            "remove_deployment"),
      Route("GET", <<"policies", "kyverno-policies">>, "list_kyverno_policies")>>

ReportRoutes ==
    <<Route("POST", <<"reports", "compliance">>, "generate_compliance_report"),
      Route("GET", <<"reports", "cluster-summary", "{cluster_id}">>,
            "get_cluster_summary_report"),
      Route("GET", <<"reports", "policy", "{policy_id}">>, "get_policy_report"),
      Route("GET", <<"reports", "compliance", "{cluster_id}", "markdown">>,
            "get_compliance_report_markdown")>>

\* app.include_router(clusters.router), (policies.router), (reports.router)
Routes == ClusterRoutes \o PolicyRoutes \o ReportRoutes

\* a path parameter; every one of them is declared int by its handler
IsParam(segment) ==
    segment \in {"{cluster_id}", "{policy_id}", "{sa_id}", "{deployment_id}"}
\* the segments that parse as an int
IsInt(segment) == segment \in {"1", "2"}

\* the path regex of a route: a parameter matches any non-empty segment
Matches(route_path, path) ==
    /\ Len(route_path) = Len(path)
    /\ \A i \in DOMAIN path :
          IF IsParam(route_path[i]) THEN path[i] /= "" ELSE route_path[i] = path[i]

\* Router: the first route, in registration order, whose path regex and
\* method both match (0 when there is none)
FirstMatch(method, path) ==
    LET full == {i \in DOMAIN Routes :
                    Matches(Routes[i].path, path) /\ Routes[i].method = method}
    IN  IF full = {} THEN 0 ELSE CHOOSE i \in full : \A j \in full : i <= j

\* what the application does with a request: the endpoint whose route took it
\* and the status code, 200 standing for "the handler body runs"; 422 when a
\* path parameter of the matched route does not parse as an int; 405 when only
\* the path matches some route; 404 when nothing matches
Dispatch(method, path) ==
    LET i == FirstMatch(method, path)
        route == Routes[i]
    IN  IF i /= 0
        THEN [endpoint |-> route.endpoint,
              code |-> IF \A k \in DOMAIN path :
                             IsParam(route.path[k]) => IsInt(path[k])
                       THEN 200 ELSE 422]
        ELSE IF \E k \in DOMAIN Routes : Matches(Routes[k].path, path)
        THEN [endpoint |-> NullText, code |-> 405]
        ELSE [endpoint |-> NullText, code |-> 404]

\* "<METHOD> /<segment>/<segment>..."
PathText(method, path) == method \o " /" \o Join(path, "/")

\* the path of a route with 1 for every parameter
Instantiate(route_path) ==
    [i \in DOMAIN route_path |-> IF IsParam(route_path[i]) THEN "1" ELSE route_path[i]]

\* the requests sent: every registered route with its parameters filled in,
\* the same paths under the other methods, and a path nobody registered
Methods == {"GET", "POST", "PUT", "DELETE"}
RequestPaths ==
    {Instantiate(Routes[i].path) : i \in DOMAIN Routes} \cup {<<"policies", "1", "yaml">>}

\* one HTTP request going through the router
route_request(method, path) ==
    /\ Served
    /\ LET d == Dispatch(method, path)
       IN  last' = Resp("dispatch", d.code, Null, d.endpoint, 0, PathText(method, path))
    /\ UNCHANGED <<dbvars, k8svars, sshvars, now, ret, validated, auxvars>>

NoResp == Resp("none", 0, Null, NullText, 0, "none")
\* validate_policy has not been called
NotValidated == [doc |-> NullText, called |-> FALSE, result |-> NullText]

\* the state after start-up, but for the service calls of the specifications below
InitBase ==
    /\ clusters = {}
    /\ tokens = {}
    /\ policies = {}
    /\ deployments = {}
    /\ audit_logs = <<>>
    /\ last = NoResp
    /\ nreq = 0
    /\ k8s_sessions = <<>>
    /\ ssh_sessions = <<>>
    /\ k8s_client = <<>>
    /\ ssh_client = <<>>
    /\ ssh_born = <<>>
    /\ now = 0
    /\ ret = Ret("none", Null, "ok", Null, 0)
    /\ validated = NotValidated

\* no deploy request is in flight and get_k8s_connector() has not been called
LoopInit ==
    /\ tasks = [t \in TaskIds |-> NoTask]
    /\ running = Null
    /\ connector_instance = Null

\* no service call has been made
AuxInit ==
    /\ report = NoReport
    /\ migration = [db |-> Database("missing", <<>>)] @@ NotRun
    /\ LoopInit
    /\ ConnectorInit

Init == InitBase /\ AuxInit

\* the validation engine alone, on every document of up to MaxRules rules
InitValidate ==
    /\ clusters = {}
    /\ tokens = {}
    /\ policies = {}
    /\ deployments = {}
    /\ audit_logs = <<>>
    /\ last = NoResp
    /\ nreq = 0
    /\ k8s_sessions = <<>>
    /\ ssh_sessions = <<>>
    /\ k8s_client = <<>>
    /\ ssh_client = <<>>
    /\ ssh_born = <<>>
    /\ now = 0
    /\ ret = Ret("none", Null, "ok", Null, 0)
    /\ validated \in {[doc |-> d, called |-> FALSE, result |-> NullText] : d \in PolicyDocs(MaxRules)}
    /\ AuxInit

NextValidate == validate_policy_request

SpecValidate == InitValidate /\ [][NextValidate]_vars

SessionIds == 1..MaxSessions

NextPool ==
    \/ create_k8s_session
    \/ \E c \in SessionIds : k8s_load(c)
    \/ \E sid \in SessionIds : get_k8s_session(sid)
    \/ \E sid \in SessionIds : close_k8s_session(sid)
    \/ cleanup_expired_k8s_sessions
    \/ create_ssh_session
    \/ \E c \in SessionIds : ssh_connector_connect(c)
    \/ \E sid \in SessionIds : get_ssh_session(sid)
    \/ \E sid \in SessionIds : close_ssh_session(sid)
    \/ cleanup_expired_sessions
    \/ Tick

SpecPool == Init /\ [][NextPool]_vars

Next ==
    \/ \E name \in ClusterNames : create_cluster(name)
    \/ \E id \in ClusterIds, name \in ClusterNames \cup {UnsetText} : update_cluster(id, name)
    \/ \E id \in ClusterIds : delete_cluster(id)
    \/ \E connected \in BOOLEAN : ssh_connect(connected)
    \/ \E sid \in SessionIds, name \in ClusterNames, fail \in SetupFailures,
          install \in KyvernoInstalls : setup_cluster_complete(sid, name, fail, install)
    \/ \E cid \in ClusterIds, tid \in TokenIds : delete_service_account_token(cid, tid)
    \/ \E cid \in ClusterIds, sid \in SessionIds, created \in BOOLEAN :
          create_service_account(cid, sid, created)
    \/ \E cid \in ClusterIds, query \in ClusterQueries : list_namespaces(cid, query)
    \/ \E cid \in ClusterIds, query \in ClusterQueries : get_cluster_info(cid, query)
    \/ \E cid \in ClusterIds, query \in ClusterQueries : check_kyverno_status(cid, query)
    \/ \E cid \in ClusterIds, query \in ClusterQueries :
          get_kyverno_comprehensive_status(cid, query)
    \/ \E cid \in ClusterIds, tid \in TokenIds \cup {Null},
          helm \in HelmInstalls \ {"no_helm"} : install_kyverno_with_token(cid, tid, helm)
    \/ \E cid \in ClusterIds, helm \in HelmInstalls : install_kyverno(cid, helm)
    \/ \E cid \in ClusterIds, helm \in HelmUninstalls : uninstall_kyverno(cid, helm)
    \/ \E name \in PolicyNames, cid \in ClusterIds, t \in Templates :
          create_policy(name, cid, t)
    \/ \E id \in PolicyIds, name \in PolicyNames \cup {UnsetText},
          cid \in ClusterIds \cup {Null, Unset}, t \in Templates \cup {UnsetText} :
          update_policy(id, name, cid, t)
    \/ \E id \in PolicyIds : delete_policy(id)
    \/ \E id \in PolicyIds, cid \in ClusterIds \cup {Null}, params \in Parameters,
          apply \in ApplyOutcomes : deploy_policy(id, cid, params, apply)
    \/ \E id \in DeploymentIds : remove_deployment(id)

Spec == Init /\ [][Next]_vars

\* the router alone
NextRoutes == \E method \in Methods, path \in RequestPaths : route_request(method, path)

SpecRoutes == Init /\ [][NextRoutes]_vars

\* the report generator alone, on every list of up to MaxReportPolicies
\* policies and MaxViolations violations
Lists(S, max) == UNION {[1..n -> S] : n \in 0..max}
InitReport ==
    /\ InitBase
    /\ report \in {ReportCall(policies_arg, violations_arg, include_passed, include_failed) :
                      policies_arg \in Lists(ReportPolicies, MaxReportPolicies),
                      violations_arg \in Lists(Violations, MaxViolations),
                      include_passed \in BOOLEAN, include_failed \in BOOLEAN}
    /\ migration = [db |-> Database("missing", <<>>)] @@ NotRun
    /\ LoopInit
    /\ ConnectorInit

NextReport == build_compliance_report

SpecReport == InitReport /\ [][NextReport]_vars

\* the migration script alone, run up to MaxRuns times on a missing file, on
\* a database without a policies table, and on every policies table of up to
\* MaxColumns distinct columns
Schemas ==
    {columns \in Lists({"id", "name", "yaml_template", "cluster_id"}, MaxColumns) :
        \A i, j \in DOMAIN columns : columns[i] = columns[j] => i = j}
InitMigration ==
    /\ InitBase
    /\ report = NoReport
    /\ migration \in {[db |-> db] @@ NotRun :
                         db \in {Database("missing", <<>>), Database("no_policies", <<>>)}
                                 \cup {Database("has_policies", columns) :
                                           columns \in Schemas \ {<<>>}}}
    /\ LoopInit
    /\ ConnectorInit

NextMigration == \E locked \in BOOLEAN : add_cluster_id_to_policies(locked)

SpecMigration == InitMigration /\ [][NextMigration]_vars

\* two clusters set up over one SSH session and one policy created for each;
\* nreq counts the requests served after that
InitDeploy ==
    /\ clusters = {[id |-> 1, name |-> "prod", server_url |-> "https"],
                   [id |-> 2, name |-> "dev", server_url |-> "https"]}
    /\ tokens = {[id |-> 1, cluster_id |-> 1, is_active |-> TRUE],
                 [id |-> 2, cluster_id |-> 2, is_active |-> TRUE]}
    /\ policies = {[id |-> 1, name |-> "require-labels", cluster_id |-> 1,
                    yaml_template |-> "tplA"],
                   [id |-> 2, name |-> "disallow-latest", cluster_id |-> 2,
                    yaml_template |-> "tplA"]}
    /\ deployments = {}
    /\ audit_logs = <<AuditLog("ssh_connect", Null, "success", NullText),
                      AuditLog("cluster_setup_complete", 1, "success", NullText),
                      AuditLog("cluster_setup_complete", 2, "success", NullText),
                      AuditLog("policy_create", 1, "success", NullText),
                      AuditLog("policy_create", 2, "success", NullText)>>
    /\ last = Resp("create_policy", 200, 2, "disallow-latest", 0, "none")
    /\ nreq = 0
    /\ k8s_sessions = <<>>
    /\ ssh_sessions = WithEntry(<<>>, 1, 1, 0)
    /\ k8s_client = <<>>
    /\ ssh_client = [c \in {1} |-> TRUE]
    /\ ssh_born = [c \in {1} |-> 0]
    /\ now = 0
    /\ ret = Ret("none", Null, "ok", Null, 0)
    /\ validated = NotValidated
    /\ AuxInit

\* the deploy requests call by call, and the two requests that delete what a
\* deployment refers to, which the event loop runs when it is free
NextDeploy ==
    \/ \E id \in PolicyIds, cid \in ClusterIds \cup {Null}, params \in Parameters :
          deploy_policy_pending(id, cid, params)
    \/ \E t \in TaskIds, loaded \in BOOLEAN : deploy_policy_load(t, loaded)
    \/ \E t \in TaskIds, apply \in ApplyOutcomes : deploy_policy_apply(t, apply)
    \/ \E id \in PolicyIds : running = Null /\ delete_policy(id)
    \/ \E id \in DeploymentIds : running = Null /\ remove_deployment(id)

SpecDeploy == InitDeploy /\ [][NextDeploy]_vars

\* one connector alone, through every sequence of its calls with up to
\* MaxLoads temporary files made
NextConnector ==
    \/ \E kubeconfig_content \in {"empty", "valid", "invalid"} :
          load_cluster_from_content(kubeconfig_content)
    \/ cleanup
    \/ disconnect

SpecConnector == Init /\ [][NextConnector]_vars

\* the store and the SSH pool right after POST /clusters/ssh/connect and
\* POST /clusters/setup have succeeded on a new installation; nreq counts the
\* requests served after that
InitAfterSetup ==
    /\ \E name \in ClusterNames :
        /\ clusters = {[id |-> 1, name |-> name, server_url |-> "https"]}
        /\ last = Resp("setup", 200, 1, name, 0, "skip")
    /\ tokens = {[id |-> 1, cluster_id |-> 1, is_active |-> TRUE]}
    /\ policies = {}
    /\ deployments = {}
    /\ audit_logs = <<AuditLog("ssh_connect", Null, "success", NullText),
                      AuditLog("cluster_setup_complete", 1, "success", NullText)>>
    /\ nreq = 0
    /\ k8s_sessions = <<>>
    /\ ssh_sessions = WithEntry(<<>>, 1, 1, 0)
    /\ k8s_client = <<>>
    /\ ssh_client = [c \in {1} |-> TRUE]
    /\ ssh_born = [c \in {1} |-> 0]
    /\ now = 0
    /\ ret = Ret("none", Null, "ok", Null, 0)
    /\ validated = NotValidated
    /\ AuxInit

\* the requests of the policies router
NextPolicies ==
    \/ \E name \in PolicyNames, cid \in ClusterIds, t \in Templates :
          create_policy(name, cid, t)
    \/ \E id \in PolicyIds, name \in PolicyNames \cup {UnsetText},
          cid \in ClusterIds \cup {Null, Unset}, t \in Templates \cup {UnsetText} :
          update_policy(id, name, cid, t)
    \/ \E id \in PolicyIds : delete_policy(id)
    \/ \E id \in PolicyIds, cid \in ClusterIds \cup {Null}, params \in Parameters,
          apply \in ApplyOutcomes : deploy_policy(id, cid, params, apply)
    \/ \E id \in DeploymentIds : remove_deployment(id)

\* ... and DELETE /clusters/{id}
NextAfterSetup ==
    \/ NextPolicies
    \/ \E id \in ClusterIds : delete_cluster(id)

SpecAfterSetup == InitAfterSetup /\ [][NextAfterSetup]_vars

\* ===================================================================
\*  Properties
\* ===================================================================

\* C1 (as claimed): a deployment row created by POST /policies/deploy ends
\* deployed, with deployed_at set, only if applying the manifest succeeded;
\* whenever applying fails (an item of the apply result failed, or the call
\* raised) the row ends failed with error_message set.
C1_DeployedOnlyIfApplied ==
    (last.op = "deploy_policy" /\ last.rid /= Null) =>
        LET d == RowById(deployments, last.rid) IN
        /\ d.status \in {"deployed", "failed"}
        /\ d.status = "deployed" => (last.info = "created" /\ d.deployed_at /= NullText)
        /\ last.info \in {"item_failed", "raised"} =>
               (d.status = "failed" /\ d.error_message /= NullText)

\* C2 (as claimed): no request changes the status of a deployment row that is
\* failed or removed: once failed it stays failed, once removed it stays removed.
C2_FailedAndRemovedAreFinal ==
    [][\A d \in deployments :
          d.status \in {"failed", "removed"} =>
              \E e \in deployments' : e.id = d.id /\ e.status = d.status]_vars

\* C3: no two Cluster rows ever have the same name, and a create or setup
\* request that names an existing cluster is rejected, changes no Cluster row
\* and leaves exactly one row with that name.
C3_ClusterNameUnique ==
    /\ [](\A c1 \in clusters, c2 \in clusters : c1.name = c2.name => c1.id = c2.id)
    /\ [][(last'.op \in {"create_cluster", "setup"}
            /\ \E c \in clusters : c.name = last'.name) =>
               /\ last'.code /= 200
               /\ clusters' = clusters
               /\ Cardinality({c \in clusters' : c.name = last'.name}) = 1]_vars

\* C3 witness: a create request for a name that is taken has just been rejected
C3_Witness ==
    /\ last.op = "create_cluster"
    /\ last.code = 400
    /\ Cardinality({c \in clusters : c.name = last.name}) = 1

\* C4 (as claimed): no two Policy rows have the same (name, cluster_id) pair.
C4_PolicyNameUniquePerCluster ==
    \A p1 \in policies, p2 \in policies :
        (p1.name = p2.name /\ p1.cluster_id = p2.cluster_id) => p1.id = p2.id

\* C5 (as claimed): DELETE /policies/{id} on an existing policy with at least
\* one deployed deployment is rejected with the number of such deployments and
\* changes neither the policy nor a deployment row; with none deployed the
\* policy row is removed.
C5_DeletePolicy ==
    [][\A pid \in PolicyIds :
          (last'.op = "delete_policy" /\ last'.code /= 404 /\ last'.rid = pid
            /\ \E p \in policies : p.id = pid) =>
              LET n == Cardinality({d \in deployments :
                                       d.policy_id = pid /\ d.status = "deployed"})
              IN  IF n > 0
                  THEN /\ last'.code = 400
                       /\ last'.cnt = n
                       /\ policies' = policies
                       /\ deployments' = deployments
                  ELSE ~ \E p \in policies' : p.id = pid]_vars

\* C6 (as claimed): a deploy request that finds its policy and its cluster
\* creates a deployment row, and every row that ended deployed or failed has
\* exactly one policy_deploy audit row: success for deployed, failure with the
\* error text for failed (missing credentials included).
C6_DeployAlwaysAudited ==
    /\ (last.op = "deploy_policy" /\ last.info = "render_error") => last.rid /= Null
    /\ \A d \in deployments :
          d.status \in {"deployed", "failed"} =>
              LET rows == {i \in DOMAIN audit_logs :
                              /\ audit_logs[i].action = "policy_deploy"
                              /\ audit_logs[i].resource_id = d.id}
              IN  /\ Cardinality(rows) = 1
                  /\ \A i \in rows :
                        IF d.status = "deployed"
                        THEN audit_logs[i].status = "success"
                        ELSE /\ audit_logs[i].status = "failure"
                             /\ audit_logs[i].error_message /= NullText

\* C7: get session on either pool (Kubernetes 60 minutes, SSH 30 minutes).
\* For an id in the pool: if more than the timeout has passed since the entry
\* was last touched, the connector is disconnected, the entry is removed and
\* Expired is raised; otherwise the entry is stamped with the current time and
\* its own connector is returned.  An id not in the pool reports not found.
C7_GetSession ==
    [][\A sid \in SessionIds :
        /\ (ret'.fn = "get_k8s_session" /\ ret'.sid = sid) =>
              IF sid \notin DOMAIN k8s_sessions
              THEN ret'.outcome = "not_found" /\ k8s_sessions' = k8s_sessions
              ELSE IF now - k8s_sessions[sid].ts > K8S_SESSION_TIMEOUT_MINUTES
              THEN /\ ret'.outcome = "expired"
                   /\ sid \notin DOMAIN k8s_sessions'
                   /\ ~ k8s_client'[k8s_sessions[sid].conn]
              ELSE /\ ret'.outcome = "ok"
                   /\ ret'.conn = k8s_sessions[sid].conn
                   /\ k8s_sessions'[sid] = [conn |-> k8s_sessions[sid].conn, ts |-> now]
                   /\ k8s_client' = k8s_client
        /\ (ret'.fn = "get_ssh_session" /\ ret'.sid = sid) =>
              IF sid \notin DOMAIN ssh_sessions
              THEN ret'.outcome = "not_found" /\ ssh_sessions' = ssh_sessions
              ELSE IF now - ssh_sessions[sid].ts > SESSION_TIMEOUT_MINUTES
              THEN /\ ret'.outcome = "expired"
                   /\ sid \notin DOMAIN ssh_sessions'
                   /\ ~ ssh_client'[ssh_sessions[sid].conn]
              ELSE /\ ret'.outcome = "ok"
                   /\ ret'.conn = ssh_sessions[sid].conn
                   /\ ssh_sessions'[sid] = [conn |-> ssh_sessions[sid].conn, ts |-> now]
                   /\ ssh_client' = ssh_client]_vars

\* C7 witness: a Kubernetes session has just been found expired by a lookup:
\* it is gone from the pool and its connector holds no client
C7_Witness ==
    /\ ret.fn = "get_k8s_session"
    /\ ret.outcome = "expired"
    /\ ret.sid \notin DOMAIN k8s_sessions
    /\ ~ k8s_client[ret.sid]

\* C8 (as claimed): an SSH session is never returned by a lookup made more
\* than 30 minutes after the session was created, whatever lookups of it
\* succeeded in between.
C8_ExpiredSinceCreation ==
    (ret.fn = "get_ssh_session" /\ ret.outcome = "ok") =>
        now - ssh_born[ret.sid] <= SESSION_TIMEOUT_MINUTES

\* C8 (amended): an SSH session looked up more than 30 minutes after it was
\* last touched (created, or returned by its latest successful lookup) is
\* reported Expired, and that lookup closes its connection and removes it.
C8_ExpiredSinceLastTouch ==
    [][\A sid \in SessionIds :
          (ret'.fn = "get_ssh_session" /\ ret'.sid = sid
            /\ sid \in DOMAIN ssh_sessions
            /\ now - ssh_sessions[sid].ts > SESSION_TIMEOUT_MINUTES) =>
              /\ ret'.outcome = "expired"
              /\ ~ ssh_client'[ssh_sessions[sid].conn]
              /\ sid \notin DOMAIN ssh_sessions']_vars

\* C8 witness: a connected SSH session was looked up successfully, and a later
\* lookup, more than 30 minutes after that one, found it expired and closed it
C8_Witness ==
    /\ ret.fn = "get_ssh_session"
    /\ ret.outcome = "expired"
    /\ ret.sid \in DOMAIN ssh_born
    /\ now - ssh_born[ret.sid] > 2 * SESSION_TIMEOUT_MINUTES
    /\ ~ ssh_client[ret.sid]

\* C9: cleanup expired on either pool removes and disconnects exactly the
\* entries older than the pool's timeout, leaves every other entry and every
\* other connector as it was, returns the number removed, and leaves no entry
\* older than the timeout.
C9_CleanupExpired ==
    [][/\ ret'.fn = "cleanup_expired_k8s_sessions" =>
            LET old == {s \in DOMAIN k8s_sessions :
                           now - k8s_sessions[s].ts > K8S_SESSION_TIMEOUT_MINUTES}
            IN  /\ DOMAIN k8s_sessions' = DOMAIN k8s_sessions \ old
                /\ \A s \in DOMAIN k8s_sessions' : k8s_sessions'[s] = k8s_sessions[s]
                /\ \A c \in DOMAIN k8s_client :
                      k8s_client'[c] = (k8s_client[c]
                                          /\ c \notin {k8s_sessions[s].conn : s \in old})
                /\ ret'.n = Cardinality(old)
                /\ \A s \in DOMAIN k8s_sessions' :
                      now' - k8s_sessions'[s].ts <= K8S_SESSION_TIMEOUT_MINUTES
       /\ ret'.fn = "cleanup_expired_sessions" =>
            LET old == {s \in DOMAIN ssh_sessions :
                           now - ssh_sessions[s].ts > SESSION_TIMEOUT_MINUTES}
            IN  /\ DOMAIN ssh_sessions' = DOMAIN ssh_sessions \ old
                /\ \A s \in DOMAIN ssh_sessions' : ssh_sessions'[s] = ssh_sessions[s]
                /\ \A c \in DOMAIN ssh_client :
                      ssh_client'[c] = (ssh_client[c]
                                          /\ c \notin {ssh_sessions[s].conn : s \in old})
                /\ ret'.n = Cardinality(old)
                /\ \A s \in DOMAIN ssh_sessions' :
                      now' - ssh_sessions'[s].ts <= SESSION_TIMEOUT_MINUTES]_vars

\* C9 witness: a sweep of the SSH pool has just removed one entry and kept another
C9_Witness ==
    /\ ret.fn = "cleanup_expired_sessions"
    /\ ret.n = 1
    /\ DOMAIN ssh_sessions /= {}

\* C10 (as claimed): a POST /clusters/setup request that fails leaves no
\* Cluster row and no ServiceAccountToken row that it wrote.
C10_SetupFailureLeavesNoRows ==
    [][(last'.op = "setup" /\ last'.code /= 200) =>
          (clusters' = clusters /\ tokens' = tokens)]_vars

\* C11 (as claimed): every POST /clusters/setup made with a live, connected SSH
\* session appends a cluster_setup_complete audit row: success when the setup
\* succeeds, failure on every failing outcome, the 400 rejections (cluster
\* unreachable, duplicate name) included.
C11_SetupAlwaysAudited ==
    [][(last'.op = "setup"
         /\ last'.info \notin {"not_found", "expired", "not_connected"}) =>
          \E i \in DOMAIN audit_logs' :
              /\ i > Len(audit_logs)
              /\ audit_logs'[i].action = "cluster_setup_complete"
              /\ audit_logs'[i].status =
                     IF last'.code = 200 THEN "success" ELSE "failure"]_vars

\* C12 (as claimed): POST /clusters/{id}/kyverno/uninstall answers with the
\* connector's result when the release was uninstalled and when the release
\* does not exist, and answers 500 only when the uninstall itself fails.
C12_UninstallReturnsResult ==
    last.op = "uninstall_kyverno" =>
        /\ last.info \in {"uninstalled", "release_not_found"} => last.code = 200
        /\ last.code = 500 => last.info \in {"helm_failed", "load_failed"}

\* C13: the audit log is append-only: every request leaves each existing
\* audit row where it was, with its action, status and error message, and
\* only adds rows after them.
C13_AuditAppendOnly ==
    [][/\ Len(audit_logs') >= Len(audit_logs)
       /\ \A i \in DOMAIN audit_logs : audit_logs'[i] = audit_logs[i]]_vars

\* C13 witness: a setup request has failed and rolled back after an earlier
\* request was audited; the earlier row is there and the failure row follows it
C13_Witness ==
    /\ last.op = "setup"
    /\ last.code = 500
    /\ Len(audit_logs) >= 2
    /\ audit_logs[1].action = "ssh_connect"
    /\ audit_logs[Len(audit_logs)].action = "cluster_setup_complete"
    /\ audit_logs[Len(audit_logs)].status = "failure"

\* C14 (as claimed): DELETE /clusters/{id} on an existing cluster succeeds,
\* removes the Cluster row and every token row it owns, and leaves every
\* Policy row and PolicyDeployment row unchanged, also when policies or
\* deployments reference the cluster.
C14_DeleteCluster ==
    [][\A cid \in ClusterIds :
          (last'.op = "delete_cluster" /\ (\E c \in clusters : c.id = cid)
            /\ last'.rid = cid) =>
              /\ last'.code = 200
              /\ ~ \E c \in clusters' : c.id = cid
              /\ ~ \E t \in tokens' : t.cluster_id = cid
              /\ policies' = policies
              /\ deployments' = deployments]_vars

C16_DeployAddsOneRow ==
    [][last'.op = "deploy_policy" =>
          /\ deployments \subseteq deployments'
          /\ (last'.code /= 404
                /\ last'.info \notin {"no_cluster", "mismatch", "render_error"}) =>
                 /\ Cardinality(deployments' \ deployments) = 1
                 /\ \A d \in deployments' \ deployments :
                        ~ \E e \in deployments : e.id = d.id]_vars

\* C16 witness: the same policy has just been deployed to the same cluster a
\* second time: the earlier row and the new row are both stored
C16_Witness ==
    /\ last.op = "deploy_policy"
    /\ last.rid /= Null
    /\ \E d \in deployments, e \in deployments :
          /\ d.id = last.rid
          /\ e.id /= d.id
          /\ e.policy_id = d.policy_id
          /\ e.cluster_id = d.cluster_id

\* C17: a deploy request that resolves its policy and cluster creates exactly
\* one row; without parameters (none, or the empty map) its deployed_yaml is
\* the policy's stored yaml_template, with parameters it is the rendered
\* template; a render failure is answered 400 and creates no row.
C17_DeployedYaml ==
    [][(/\ last'.op = "deploy_policy"
        /\ last'.code /= 404
        /\ last'.info \notin {"no_cluster", "mismatch"}) =>
          IF last'.name = "render_error"
          THEN last'.code = 400 /\ deployments' = deployments
          ELSE /\ Cardinality(deployments' \ deployments) = 1
               /\ \A d \in deployments' \ deployments :
                     LET template == RowById(policies, d.policy_id).yaml_template IN
                     d.deployed_yaml = IF last'.name \in {"none", "empty"}
                                       THEN template
                                       ELSE Render(template)]_vars

\* C17 witness: a policy has just been deployed without parameters and the
\* row holds the policy's template text as stored
C17_Witness ==
    /\ last.op = "deploy_policy"
    /\ last.name = "none"
    /\ last.code = 200
    /\ \E d \in deployments, p \in policies :
          /\ d.id = last.rid
          /\ d.status = "deployed"
          /\ p.id = d.policy_id
          /\ d.deployed_yaml = p.yaml_template

\* C18: DELETE /policies/deployments/{id} on a deployed row ends with the row
\* removed and answers 200, also when the live delete raises; the live delete
\* is attempted only for a deployed row whose policy and cluster rows exist.
C18_RemoveDeployment ==
    [][\A id \in DeploymentIds :
          (last'.op = "remove_deployment" /\ last'.rid = id
            /\ \E d \in deployments : d.id = id) =>
              LET d == RowById(deployments, id) IN
              /\ d.status = "deployed" =>
                    /\ last'.code = 200
                    /\ RowById(deployments', id).status = "removed"
              /\ last'.info /= "not_attempted" =>
                    /\ d.status = "deployed"
                    /\ \E p \in policies : p.id = d.policy_id
                    /\ \E c \in clusters : c.id = d.cluster_id]_vars

\* C18 witness: a deployed row has just been removed although the live delete
\* raised
C18_Witness ==
    /\ last.op = "remove_deployment"
    /\ last.info = "raised"
    /\ \E d \in deployments : d.id = last.rid /\ d.status = "removed"
                               /\ d.deployed_at /= NullText

\* C19 (as claimed): on a document with the four top-level fields,
\* validate_policy returns valid=false whenever there is a hard error (kind
\* outside {ClusterPolicy, Policy}; metadata.name missing or empty; spec.rules
\* missing or empty; a rule without a name, without a match block, or without
\* any of validate/mutate/generate/verifyImages), the errors list holds an
\* entry for every hard error, and valid is true exactly when errors is empty.
C19_HardErrorsReported ==
    (validated.called /\ \A f \in {"apiVersion", "kind", "metadata", "spec"} :
                            f \in DOMAIN validated.doc) =>
        LET doc == validated.doc
            r == validated.result
            rules == IF "rules" \in DOMAIN doc["spec"] THEN doc["spec"]["rules"] ELSE <<>>
            noname(rule) == "name" \notin DOMAIN rule \/ rule["name"] = ""
            hard ==
                (IF doc["kind"] \notin {"ClusterPolicy", "Policy"} THEN {"kind"} ELSE {})
                \cup (IF noname(doc["metadata"]) THEN {"metadata"} ELSE {})
                \cup (IF rules = <<>> THEN {"rules"} ELSE {})
                \cup (IF \E i \in DOMAIN rules : noname(rules[i])
                      THEN {"rule_name"} ELSE {})
                \cup (IF \E i \in DOMAIN rules : "match" \notin DOMAIN rules[i]
                      THEN {"rule_match"} ELSE {})
                \cup (IF \E i \in DOMAIN rules :
                            DOMAIN rules[i] \cap {"validate", "mutate", "generate",
                                                  "verifyImages"} = {}
                      THEN {"rule_action"} ELSE {})
        IN  /\ hard /= {} => ~ r.valid
            /\ \A h \in hard : \E i \in DOMAIN r.errors : r.errors[i].check = h
            /\ r.valid <=> r.errors = <<>>

\* C20: for a document lacking one or more of apiVersion, kind, metadata and
\* spec, validate_policy returns valid=false, exactly one missing-field error
\* per absent field, and no error or warning of the kind, metadata or rule
\* checks.
C20_MissingFields ==
    validated.called =>
        LET doc == validated.doc
            r == validated.result
            absent == {f \in {"apiVersion", "kind", "metadata", "spec"} :
                          f \notin DOMAIN doc}
        IN  absent /= {} =>
                /\ ~ r.valid
                /\ Len(r.errors) = Cardinality(absent)
                /\ \A f \in absent : \E i \in DOMAIN r.errors :
                       r.errors[i] = [check |-> "missing_field", about |-> f]
                /\ r.warnings = <<>>

\* C20 witness: a document without kind and without spec has been validated
\* and two missing-field errors came back
C20_Witness ==
    /\ validated.called
    /\ DOMAIN validated.doc = {"apiVersion", "metadata"}
    /\ ~ validated.result.valid
    /\ Len(validated.result.errors) = 2

\* C21 (as claimed): for every document with kind ClusterPolicy or Policy and
\* at least one rule that has a name, a match block and one of validate,
\* mutate, generate, verifyImages, validate_policy returns valid=true with an
\* empty errors list.
C21_ValidWithOneGoodRule ==
    validated.called =>
        LET doc == validated.doc
            r == validated.result
            rules == IF "spec" \in DOMAIN doc /\ "rules" \in DOMAIN doc["spec"]
                     THEN doc["spec"]["rules"] ELSE <<>>
            good(rule) == /\ "name" \in DOMAIN rule /\ rule["name"] /= ""
                          /\ "match" \in DOMAIN rule
                          /\ DOMAIN rule \cap {"validate", "mutate", "generate",
                                                "verifyImages"} /= {}
        IN  (/\ "kind" \in DOMAIN doc
             /\ doc["kind"] \in {"ClusterPolicy", "Policy"}
             /\ \E i \in DOMAIN rules : good(rules[i]))
            => (r.valid /\ r.errors = <<>>)

\* C21 (amended): for every document that has the four top-level fields, kind
\* ClusterPolicy or Policy, a non-empty metadata.name and at least one rule,
\* every rule of which has a name, a match block and one of validate, mutate,
\* generate, verifyImages, validate_policy returns valid=true with an empty
\* errors list.
C21_ValidWhenWellFormed ==
    validated.called =>
        LET doc == validated.doc
            r == validated.result
            good(rule) == /\ "name" \in DOMAIN rule /\ rule["name"] /= ""
                          /\ "match" \in DOMAIN rule
                          /\ DOMAIN rule \cap {"validate", "mutate", "generate",
                                                "verifyImages"} /= {}
        IN  (/\ DOMAIN doc = {"apiVersion", "kind", "metadata", "spec"}
             /\ doc["kind"] \in {"ClusterPolicy", "Policy"}
             /\ "name" \in DOMAIN doc["metadata"] /\ doc["metadata"]["name"] /= ""
             /\ "rules" \in DOMAIN doc["spec"]
             /\ doc["spec"]["rules"] /= <<>>
             /\ \A i \in DOMAIN doc["spec"]["rules"] : good(doc["spec"]["rules"][i]))
            => (r.valid /\ r.errors = <<>>)

\* C21 witness: a ClusterPolicy named p with a validate rule and a mutate rule,
\* both named and matched, has been validated and came back valid
C21_Witness ==
    /\ validated.called
    /\ DOMAIN validated.doc = {"apiVersion", "kind", "metadata", "spec"}
    /\ validated.doc["kind"] = "ClusterPolicy"
    /\ validated.doc["metadata"] = [name |-> "p"]
    /\ "rules" \in DOMAIN validated.doc["spec"]
    /\ validated.doc["spec"]["rules"] =
           <<[name |-> "r1", match |-> "any", validate |-> "deny"],
             [name |-> "r1", match |-> "any", mutate |-> "patch"]>>
    /\ validated.result.valid
    /\ validated.result.errors = <<>>

C23_TemplatesValidated ==
    [][/\ \A p \in policies' : validate_policy(safe_load(p.yaml_template)).valid
       /\ \A t \in Templates :
             (/\ ~ validate_policy(safe_load(t)).valid
              /\ \/ \E name \in PolicyNames, cid \in ClusterIds : create_policy(name, cid, t)
                 \/ \E id \in PolicyIds, name \in PolicyNames \cup {UnsetText},
                       cid \in ClusterIds \cup {Null, Unset} :
                       update_policy(id, name, cid, t))
             => (last'.code = 400 /\ policies' = policies)]_vars

\* C23 (amended): after any sequence of policy create and update requests every
\* stored yaml_template is a document for which validate_policy returns
\* valid=true; a create, or an update that supplies yaml_template, whose
\* template fails validation changes no Policy row and is rejected: with 404
\* when the cluster named by the create, or the policy named by the update,
\* does not exist, and with 400 otherwise.
C23_TemplatesValidatedOnceFound ==
    [][/\ \A p \in policies' : validate_policy(safe_load(p.yaml_template)).valid
       /\ \A t \in Templates : ~ validate_policy(safe_load(t)).valid =>
             /\ \A name \in PolicyNames, cid \in ClusterIds :
                   create_policy(name, cid, t) =>
                       /\ policies' = policies
                       /\ last'.code = IF \E c \in clusters : c.id = cid
                                       THEN 400 ELSE 404
             /\ \A id \in PolicyIds, name \in PolicyNames \cup {UnsetText},
                   cid \in ClusterIds \cup {Null, Unset} :
                   update_policy(id, name, cid, t) =>
                       /\ policies' = policies
                       /\ last'.code = IF \E p \in policies : p.id = id
                                       THEN 400 ELSE 404]_vars

\* C23 witness: an update that supplied a template failing validation has just
\* been rejected with 400, and the policy it addressed is stored with a
\* template that passes
C23_Witness ==
    /\ last.op = "update_policy"
    /\ last.code = 400
    /\ last.info = "invalid"
    /\ \E p \in policies : /\ p.id = last.rid
                            /\ validate_policy(safe_load(p.yaml_template)).valid

\* C24 (as claimed): GET /policies/deployments reaches list_deployments,
\* GET /policies/kyverno-policies reaches list_kyverno_policies and
\* POST /clusters/ssh/kyverno/install reaches ssh_install_kyverno; none is
\* captured by a parameterised route registered earlier.
C24_OwnHandler ==
    last.op = "dispatch" =>
        /\ last.info = "GET /policies/deployments" =>
               (last.name = "list_deployments" /\ last.code = 200)
        /\ last.info = "GET /policies/kyverno-policies" =>
               (last.name = "list_kyverno_policies" /\ last.code = 200)
        /\ last.info = "POST /clusters/ssh/kyverno/install" =>
               (last.name = "ssh_install_kyverno" /\ last.code = 200)

\* C25: a compliance report built with include_failed=false has no detail
\* entry with status failed, whatever policies and violations were supplied;
\* and whatever the two include flags are, the summary counts passed and
\* failed cover every supplied policy: passed + failed = total_policies = the
\* number of policies.
C25_FailedFiltered ==
    report.called =>
        LET r == report.result
        IN  /\ ~ report.include_failed =>
                   \A i \in DOMAIN r.details : r.details[i].status /= "failed"
            /\ r.summary.passed + r.summary.failed = r.summary.total_policies
            /\ r.summary.total_policies = Len(report.policies)

\* C25 witness: a report over a violated policy and a clean one, built with
\* include_failed=false and include_passed=true: the summary counts one failed
\* policy and the details list holds the passed one only
C25_Witness ==
    /\ report.called
    /\ ~ report.include_failed
    /\ report.include_passed
    /\ report.policies = <<[name |-> "a"], [name |-> "b"]>>
    /\ report.violations = <<[policy_name |-> "a"]>>
    /\ report.result.summary.failed = 1
    /\ report.result.summary.passed = 1
    /\ Len(report.result.details) = 1
    /\ report.result.details[1].policy_name = "b"

\* C26: a run of the migration on a database whose policies table already
\* has the cluster_id column exits 0 and leaves the table as it is; a run
\* that follows a run that exited 0 exits 0 and leaves the table as the first
\* run left it; a run exits 1 when the database file is missing or the
\* alteration fails.
C26_MigrationIdempotent ==
    [][migration'.runs = migration.runs + 1 =>
          LET db == migration.db
              has_column == /\ db.file = "has_policies"
                            /\ \E i \in DOMAIN db.columns : db.columns[i] = "cluster_id"
          IN  /\ has_column => (migration'.exit = 0 /\ migration'.db = db)
              /\ (migration.runs > 0 /\ migration.exit = 0) =>
                     (migration'.exit = 0 /\ migration'.db = db)
              /\ db.file = "missing" => (migration'.exit = 1 /\ migration'.db = db)
              /\ migration'.outcome = "database_error" =>
                     (migration'.exit = 1 /\ migration'.db = db)]_vars

\* C26 witness: the script has run twice on a table that lacked the column:
\* the second run found the column the first had added, and exited 0
C26_Witness ==
    /\ migration.runs = 2
    /\ migration.outcome = "exists"
    /\ migration.exit = 0
    /\ migration.db = Database("has_policies", <<"id", "name", "cluster_id">>)


C29_TempSessionClosed ==
    [][(/\ nreq' = nreq + 1
        /\ last'.op \in {"list_namespaces", "get_cluster_info", "check_kyverno_status",
                          "get_kyverno_comprehensive_status",
                          "install_kyverno_with_token", "install_kyverno",
                          "uninstall_kyverno"})
       => /\ k8s_sessions' = k8s_sessions
          /\ \A c \in DOMAIN k8s_client' :
                k8s_client'[c] = (c \in DOMAIN k8s_client /\ k8s_client[c])]_vars

\* an install whose Helm run failed after the kubeconfig had been loaded into
\* the temporary session: the connector exists, and the pool is empty
C29_Witness ==
    /\ last.op = "install_kyverno" /\ last.code = 500 /\ last.info = "helm_failed"
    /\ DOMAIN k8s_client /= {}
    /\ DOMAIN k8s_sessions = {}

\* C30: whenever the connector holds a loaded API client, the kubeconfig
\* path in effect names a temporary file that exists, and at most one
\* temporary file made by the connector exists
C30_LoadedClientHasFile ==
    /\ connector.api_client => connector.current_kubeconfig \in tmpdir.files
    /\ Cardinality(tmpdir.files) <= 1

====
